---- MODULE Spec2Model ----
(***************************************************************************)
(* Subscription Manager browser extension: the DataManager store           *)
(* (dataManager.js), the background service worker (background script) and *)
(* the popup's category / rollover code (popup.js), as one state machine.  *)
(*                                                                         *)
(* Time is an integer number of ticks since 2024-01-01T00:00Z; one day is  *)
(* TicksPerDay ticks.  ISO strings and date-only strings both denote an    *)
(* instant, so a timestamp field holds a tick count or Undefined.  Dates   *)
(* are computed in UTC.  Amounts are integers.                             *)
(***************************************************************************)
EXTENDS Integers, Sequences, FiniteSets, TLC

\* ------------------------------------------------------------------ bounds
MaxIds == 2          \* subscriptions created through the background worker
MaxDmSubs == 1       \* subscriptions created through the DataManager
MaxTime == 2         \* last tick the lifecycle clock reaches
MaxSkips == 12       \* skipNextPayment calls per subscription
MaxResumes == 2      \* successful resumeSubscription calls in a run
MaxInflight == 2     \* background handlers in flight at a time
MaxReviveSubs == 1   \* subscriptions created in the reactivation runs
MaxReviveTasks == 1  \* background handlers in flight in the reactivation runs
MaxWorkerTime == 1   \* last tick the clock reaches in the worker runs
MaxCustom == 1       \* custom categories the popup holds at a time
MaxMonth == 3        \* last month of 2024 (0 = January) the rollover clock reaches
MaxAlarmHours == 337 \* hourly alarms the reminder runs go through
MaxSpendSubs == 2    \* subscriptions the DataManager loads in the analytics runs
MaxSpendMonth == 1   \* last month of 2024 the analytics clock reaches
MaxStoreLen == 3     \* subscriptions in the list after a merging import
MaxTrialTime == 62   \* last tick the trial clock reaches (day 31 after installation)

\* --------------------------------------------------------------- constants
Undefined == -1      \* a missing (undefined) numeric or date field
TicksPerDay == 2     \* 1000 * 60 * 60 * 24 ms
EpochYear == 2024
HoursPerTick == 24 \div TicksPerDay

\* ---------------------------------------------------------------- calendar
IsLeap(y) == (y % 4 = 0 /\ y % 100 # 0) \/ (y % 400 = 0)

DaysInYear(y) == IF IsLeap(y) THEN 366 ELSE 365

\* m is zero-based, as in JS Date
DaysInMonth(y, m) ==
  IF m = 1 THEN (IF IsLeap(y) THEN 29 ELSE 28)
  ELSE IF m \in {3, 5, 8, 10} THEN 30 ELSE 31

RECURSIVE DaysBeforeYear(_)
DaysBeforeYear(y) ==
  IF y = EpochYear THEN 0
  ELSE IF y > EpochYear THEN DaysBeforeYear(y - 1) + DaysInYear(y - 1)
  ELSE DaysBeforeYear(y + 1) - DaysInYear(y)

RECURSIVE DaysBeforeMonth(_, _)
DaysBeforeMonth(y, m) ==
  IF m = 0 THEN 0 ELSE DaysBeforeMonth(y, m - 1) + DaysInMonth(y, m - 1)

\* ECMAScript MakeDay: month and day may lie outside their ranges and carry
MakeDay(y, m, d) ==
  LET yy == y + (m \div 12)
      mm == m % 12
  IN DaysBeforeYear(yy) + DaysBeforeMonth(yy, mm) + (d - 1)

RECURSIVE YearFrom(_, _)
YearFrom(n, y) ==
  IF n < DaysBeforeYear(y) THEN YearFrom(n, y - 1)
  ELSE IF n >= DaysBeforeYear(y + 1) THEN YearFrom(n, y + 1)
  ELSE y

RECURSIVE MonthFrom(_, _, _)
MonthFrom(n, y, m) ==
  IF n >= DaysBeforeYear(y) + DaysBeforeMonth(y, m) + DaysInMonth(y, m)
  THEN MonthFrom(n, y, m + 1) ELSE m

DayOf(t) == t \div TicksPerDay
TimeOfDay(t) == t % TicksPerDay
getFullYear(t) == YearFrom(DayOf(t), EpochYear)
getMonth(t) == MonthFrom(DayOf(t), getFullYear(t), 0)
getDate(t) ==
  DayOf(t) - DaysBeforeYear(getFullYear(t))
           - DaysBeforeMonth(getFullYear(t), getMonth(t)) + 1

\* Date.prototype.setMonth / setFullYear: keep the day-of-month, let it carry
setMonth(t, m) ==
  MakeDay(getFullYear(t), m, getDate(t)) * TicksPerDay + TimeOfDay(t)
setFullYear(t, y) ==
  MakeDay(y, getMonth(t), getDate(t)) * TicksPerDay + TimeOfDay(t)

\* a tick for a calendar date (month zero-based) at time-of-day 0
DateTick(y, m, d) == MakeDay(y, m, d) * TicksPerDay

\* ------------------------------------------------------------------- state
VARIABLES
  now,           \* Date.now(), in ticks
  stored,        \* chrome.storage.local 'subscriptions'
  dmSubs,        \* DataManager.subscriptions
  dmCategories,  \* DataManager.categories
  idCounter,     \* number of ids generated so far
  ret,           \* outcome of the last completed operation, as its caller sees it
  pauseLog,      \* history: per id, when the last pause happened and the
                 \* nextPaymentDate it found, while nothing else touched the id
  resumes,       \* number of resumeSubscription calls that went through
  bg,            \* background worker: the handler invocations in flight
  pop,           \* popup: the operation in progress
  winSubs,       \* popup: window.subscriptions
  customCategories,  \* chrome.storage.local 'customCategories'
  categoryBudgets,   \* chrome.storage.local 'categoryBudgets'
  rolloverSettings,  \* chrome.storage.local 'rolloverSettings'
  rolloverData,      \* chrome.storage.local 'rolloverData'
  lastRun,       \* history: month of the last processMonthlyRollover run with
                 \* rollover enabled, while the settings were not saved again
  rolloverStatus,  \* popup: the "Available Rollover" amount on display
  notificationSettings,  \* chrome.storage.local 'notificationSettings'
  hourInTick,    \* hours gone by since the instant now * (24 / TicksPerDay)
  expiringSoon,  \* worker: expiringSoon of the last run that computed it
  reminded,      \* history: ids showNotification has been called for
  spendHistory,  \* history: the monthly total each past month ended with
  budgetSettings,    \* chrome.storage.local 'budgetSettings'
  dmBudgetSettings,  \* DataManager.budgetSettings
  budgetVerdict,     \* the budget status each of the three checks last gave
  premiumStatus,     \* PremiumManager.premiumStatus, as stored
  trialEndDate,      \* PremiumManager.trialEndDate
  trialStartTime,    \* PremiumManager.trialStartTime
  deviceTrialHistory,  \* when this device's trial was recorded
  expiring,          \* an expireTrial call is waiting for its storage write
  lastAnswer         \* what the last isFeatureAvailable call returned

dmVars == <<dmSubs, dmCategories, pauseLog, resumes>>
workerVars == <<bg, pop, winSubs>>
outVars == <<rolloverStatus>>
budgetVars ==
  <<customCategories, categoryBudgets, rolloverSettings, rolloverData, lastRun,
    outVars>>

alarmVars == <<notificationSettings, hourInTick, expiringSoon, reminded>>

trendVars == <<spendHistory>>

limitVars == <<budgetSettings, dmBudgetSettings, budgetVerdict>>

premiumVars ==
  <<premiumStatus, trialEndDate, trialStartTime, deviceTrialHistory, expiring,
    lastAnswer>>

settingsVars == <<limitVars, premiumVars>>

vars ==
  <<now, stored, idCounter, ret, dmVars, workerVars, budgetVars, alarmVars,
    trendVars, settingsVars>>

NoPause == [at |-> Undefined, npd |-> Undefined]

\* ids are the strings generateId produces, numbered in order of creation;
\* 0 stands for a falsy id, MaxIds + 1 for an id that was never generated
Ids == 1..MaxIds
AnyId == 0..(MaxIds + 1)
DmIds == 0..(MaxDmSubs + 1)

Forget(id) == [pauseLog EXCEPT ![id] = NoPause]

DefaultCategories ==
  <<"entertainment", "productivity", "utilities", "education", "other">>

Range(seq) == {seq[i] : i \in DOMAIN seq}

\* Array.prototype.findIndex(sub => sub.id === id), 1-based, 0 when absent
RECURSIVE FindFrom(_, _, _)
FindFrom(subs, id, i) ==
  IF i > Len(subs) THEN 0
  ELSE IF subs[i].id = id THEN i
  ELSE FindFrom(subs, id, i + 1)

findIndex(subs, id) == FindFrom(subs, id, 1)

Has(subs, id) == findIndex(subs, id) # 0

OrElse(u, f, dflt) == IF f \in DOMAIN u THEN u[f] ELSE dflt

\* a slip: the spread written in the other order, { ...updates, ...sub }
SpreadSubLast(sub, u, t) == [sub EXCEPT !.updatedAt = t]

\* { ...sub, ...updates, updatedAt: new Date().toISOString() }
Spread(sub, u, t) ==
  [id              |-> OrElse(u, "id", sub.id),
   name            |-> OrElse(u, "name", sub.name),
   price           |-> OrElse(u, "price", sub.price),
   category        |-> OrElse(u, "category", sub.category),
   billingCycle    |-> OrElse(u, "billingCycle", sub.billingCycle),
   nextPaymentDate |-> OrElse(u, "nextPaymentDate", sub.nextPaymentDate),
   isActive        |-> OrElse(u, "isActive", sub.isActive),
   pausedAt        |-> OrElse(u, "pausedAt", sub.pausedAt),
   skippedPayments |-> OrElse(u, "skippedPayments", sub.skippedPayments),
   createdAt       |-> sub.createdAt,
   updatedAt       |-> t]

\* what the caller of an operation gets back: "value" (the updated record),
\* "true", "null", or the error thrown
Outcome(op, id, kind) == kind

\* ------------------------------------------------------------- DataManager
\* the subscription object addSubscription builds from its argument
NewSubscription(id, data, t) ==
  [id              |-> id,
   name            |-> data.name,
   price           |-> IF data.price = Undefined THEN 0 ELSE data.price,
   category        |-> IF data.category = "" THEN "other" ELSE data.category,
   billingCycle    |-> IF data.billingCycle = "" THEN "monthly"
                       ELSE data.billingCycle,
   nextPaymentDate |-> data.nextPaymentDate,
   isActive        |-> data.isActive,
   pausedAt        |-> Undefined,
   skippedPayments |-> Undefined,
   createdAt       |-> t,
   updatedAt       |-> t]

addSubscription(data) ==
  /\ idCounter < MaxDmSubs
  /\ IF data.name = ""
     THEN /\ ret' = Outcome("add", 0, "NameRequired")
          /\ UNCHANGED <<dmSubs, stored, budgetSettings, idCounter>>
     ELSE /\ dmSubs' = Append(dmSubs, NewSubscription(idCounter + 1, data, now))
          /\ stored' = dmSubs'
          /\ budgetSettings' = dmBudgetSettings
          /\ idCounter' = idCounter + 1
          /\ ret' = Outcome("add", idCounter + 1, "value")
  /\ UNCHANGED <<now, dmCategories, pauseLog, resumes, workerVars, budgetVars,
                 alarmVars, trendVars,
                 dmBudgetSettings, budgetVerdict,
                 premiumVars>>

\* addSubscription when chrome.storage.local.set rejects: the push has been
\* done, saveAllData logs the error and throws it again
addSubscriptionSaveFails(data) ==
  /\ idCounter < MaxDmSubs
  /\ data.name # ""
  /\ dmSubs' = Append(dmSubs, NewSubscription(idCounter + 1, data, now))
  /\ idCounter' = idCounter + 1
  /\ ret' = Outcome("add", idCounter + 1, "SaveError")
  /\ UNCHANGED <<now, stored, dmCategories, pauseLog, resumes, workerVars,
                 budgetVars, alarmVars, trendVars, settingsVars>>

\* the body of updateSubscription: what it returns (or throws) and the list
\* it leaves in this.subscriptions
UpdateResult(subs, id, u, t) ==
  IF id = 0
  THEN [kind |-> "InvalidId", subs |-> subs]
  ELSE LET index == findIndex(subs, id) IN
       IF index # 0
       THEN LET updatedSubscription == Spread(subs[index], u, t) IN
            IF updatedSubscription.name = ""
            THEN [kind |-> "NameRequired", subs |-> subs]
            ELSE [kind |-> "value",
                  subs |-> [subs EXCEPT ![index] = updatedSubscription]]
       ELSE [kind |-> "NotFound", subs |-> subs]

\* apply an UpdateResult: saveAllData runs only when the update went through
Commit(op, id, r) ==
  /\ dmSubs' = r.subs
  /\ stored' = IF r.kind = "value" THEN r.subs ELSE stored
  /\ budgetSettings' =
       IF r.kind = "value" THEN dmBudgetSettings ELSE budgetSettings
  /\ ret' = Outcome(op, id, r.kind)

updateSubscription(id, u) ==
  /\ Commit("update", id, UpdateResult(dmSubs, id, u, now))
  /\ pauseLog' = Forget(id)
  /\ UNCHANGED <<now, dmCategories, idCounter, resumes, workerVars, budgetVars,
                 alarmVars, trendVars,
                 dmBudgetSettings, budgetVerdict,
                 premiumVars>>

deleteSubscription(id) ==
  /\ IF id = 0
     THEN /\ ret' = Outcome("delete", id, "InvalidId")
          /\ UNCHANGED <<dmSubs, stored, budgetSettings>>
     ELSE LET index == findIndex(dmSubs, id) IN
          IF index # 0
          THEN /\ dmSubs' = [i \in 1..(Len(dmSubs) - 1) |->
                               IF i < index THEN dmSubs[i] ELSE dmSubs[i + 1]]
               /\ stored' = dmSubs'
               /\ budgetSettings' = dmBudgetSettings
               /\ ret' = Outcome("delete", id, "true")
          ELSE /\ ret' = Outcome("delete", id, "NotFound")
               /\ UNCHANGED <<dmSubs, stored, budgetSettings>>
  /\ pauseLog' = Forget(id)
  /\ UNCHANGED <<now, dmCategories, idCounter, resumes, workerVars, budgetVars,
                 alarmVars, trendVars,
                 dmBudgetSettings, budgetVerdict,
                 premiumVars>>

\* a slip: the isActive test of pauseSubscription left out
pauseSubscriptionAlways(id) ==
  LET index == findIndex(dmSubs, id) IN
  /\ IF index # 0
     THEN /\ Commit("pause", id,
                    UpdateResult(dmSubs, id,
                                 [isActive |-> FALSE, pausedAt |-> now], now))
          /\ pauseLog' = [pauseLog EXCEPT ![id] =
                            [at |-> now,
                             npd |-> dmSubs[index].nextPaymentDate]]
     ELSE /\ ret' = Outcome("pause", id, "null")
          /\ UNCHANGED <<dmSubs, stored, budgetSettings, pauseLog>>
  /\ UNCHANGED <<now, dmCategories, idCounter, resumes, workerVars, budgetVars,
                 alarmVars, trendVars,
                 dmBudgetSettings, budgetVerdict,
                 premiumVars>>

pauseSubscription(id) ==
  LET index == findIndex(dmSubs, id) IN
  /\ IF index # 0 /\ dmSubs[index].isActive
     THEN /\ Commit("pause", id,
                    UpdateResult(dmSubs, id,
                                 [isActive |-> FALSE, pausedAt |-> now], now))
          /\ pauseLog' = [pauseLog EXCEPT ![id] =
                            [at |-> now,
                             npd |-> dmSubs[index].nextPaymentDate]]
     ELSE /\ ret' = Outcome("pause", id, "null")
          /\ UNCHANGED <<dmSubs, stored, budgetSettings, pauseLog>>
  /\ UNCHANGED <<now, dmCategories, idCounter, resumes, workerVars, budgetVars,
                 alarmVars, trendVars,
                 dmBudgetSettings, budgetVerdict,
                 premiumVars>>

\* a rounding slip: Math.ceil in place of Math.floor
DaysPausedCeil(pausedAt, t) ==
  (t - pausedAt + TicksPerDay - 1) \div TicksPerDay

\* Math.floor((Date.now() - pausedDate.getTime()) / (1000 * 60 * 60 * 24))
DaysPaused(pausedAt, t) == (t - pausedAt) \div TicksPerDay

ResumeUpdates(sub, t) ==
  IF /\ sub.pausedAt # Undefined
     /\ sub.nextPaymentDate # Undefined
     /\ DaysPaused(sub.pausedAt, t) > 0
  THEN [isActive |-> TRUE,
        nextPaymentDate |->
          sub.nextPaymentDate + DaysPaused(sub.pausedAt, t) * TicksPerDay]
  ELSE [isActive |-> TRUE]

resumeSubscription(id) ==
  LET index == findIndex(dmSubs, id) IN
  /\ IF index # 0 /\ ~dmSubs[index].isActive
     THEN /\ resumes < MaxResumes
          /\ resumes' = resumes + 1
          /\ Commit("resume", id,
                 UpdateResult(dmSubs, id, ResumeUpdates(dmSubs[index], now), now))
     ELSE /\ ret' = Outcome("resume", id, "null")
          /\ UNCHANGED <<dmSubs, stored, budgetSettings, resumes>>
  /\ pauseLog' = Forget(id)
  /\ UNCHANGED <<now, dmCategories, idCounter, workerVars, budgetVars,
                 alarmVars, trendVars,
                 dmBudgetSettings, budgetVerdict,
                 premiumVars>>

\* the switch of skipNextPayment
NextPaymentAfter(npd, billingCycle) ==
  CASE billingCycle = "monthly"   -> setMonth(npd, getMonth(npd) + 1)
    [] billingCycle = "quarterly" -> setMonth(npd, getMonth(npd) + 3)
    [] billingCycle = "yearly"    -> setFullYear(npd, getFullYear(npd) + 1)
    [] OTHER                      -> setMonth(npd, getMonth(npd) + 1)

OrZero(x) == IF x = Undefined THEN 0 ELSE x

skipNextPayment(id) ==
  LET index == findIndex(dmSubs, id) IN
  /\ IF /\ index # 0
        /\ dmSubs[index].isActive
        /\ dmSubs[index].nextPaymentDate # Undefined
     THEN /\ OrZero(dmSubs[index].skippedPayments) < MaxSkips
          /\ Commit("skip", id,
               UpdateResult(dmSubs, id,
                 [nextPaymentDate |->
                    NextPaymentAfter(dmSubs[index].nextPaymentDate,
                                     dmSubs[index].billingCycle),
                  skippedPayments |->
                    OrZero(dmSubs[index].skippedPayments) + 1], now))
     ELSE /\ ret' = Outcome("skip", id, "null")
          /\ UNCHANGED <<dmSubs, stored, budgetSettings>>
  /\ pauseLog' = Forget(id)
  /\ UNCHANGED <<now, dmCategories, idCounter, resumes, workerVars, budgetVars,
                 alarmVars, trendVars,
                 dmBudgetSettings, budgetVerdict,
                 premiumVars>>

\* the clock moves on by one tick
Tick(last) ==
  /\ now < last
  /\ now' = now + 1
  /\ UNCHANGED <<stored, idCounter, ret, dmVars, workerVars, budgetVars,
                 alarmVars, trendVars, settingsVars>>

\* ------------------------------------------------------- background worker
\* A handler runs from its message or alarm to the point where its storage
\* read has been served (Start), and later from there to its storage write
\* and its response (Finish); other handlers may run in between.
Slots == 1..MaxInflight

IdleTask == [op |-> "idle", id |-> 0, arg |-> <<>>, snap |-> <<>>, reply |-> FALSE]

Task(op, id, arg, reply) ==
  [op |-> op, id |-> id, arg |-> arg, snap |-> stored, reply |-> reply]

IdlePop == [op |-> "idle", id |-> 0, pc |-> "idle", arg |-> "", snap |-> <<>>]

InFlight(op) == Cardinality({slot \in Slots : bg[slot].op = op})

\* a handler takes the first free slot
FirstFree(slot) ==
  /\ bg[slot].op = "idle"
  /\ \A other \in Slots : other < slot => bg[other].op # "idle"

Start(slot, task) ==
  /\ FirstFree(slot)
  /\ bg' = [bg EXCEPT ![slot] = task]
  /\ UNCHANGED <<now, stored, idCounter, ret, dmVars, pop, winSubs, budgetVars,
                 alarmVars, trendVars, settingsVars>>

handleAddSubscriptionStart(slot, data) ==
  /\ idCounter + InFlight("add") < MaxIds
  /\ Start(slot, Task("add", 0, data, FALSE))

handleUpdateSubscriptionStart(slot, id, updates) ==
  Start(slot, Task("update", id, updates, FALSE))

handleDeleteSubscriptionStart(slot, id) ==
  Start(slot, Task("delete", id, <<>>, FALSE))

\* result.notificationSettings || {}
NoNotificationSettings ==
  [browserNotifications |-> FALSE, notificationFrequency |-> "undefined"]

\* chrome.storage.local.get(['subscriptions', 'notificationSettings'])
checkExpiringSubscriptionsStart(slot) ==
  Start(slot, Task("sweep", 0, notificationSettings, FALSE))

\* { id, ...subscriptionData, isActive: true, createdAt, updatedAt }
NewWorkerSubscription(id, data, t) ==
  [id              |-> id,
   name            |-> data.name,
   price           |-> data.price,
   category        |-> data.category,
   billingCycle    |-> data.billingCycle,
   nextPaymentDate |-> data.nextPaymentDate,
   isActive        |-> TRUE,
   pausedAt        |-> Undefined,
   skippedPayments |-> Undefined,
   createdAt       |-> t,
   updatedAt       |-> t]

\* subscriptions.filter(sub => sub.id !== id)
RECURSIVE WithoutId(_, _)
WithoutId(subs, id) ==
  IF subs = <<>> THEN <<>>
  ELSE IF Head(subs).id = id THEN WithoutId(Tail(subs), id)
  ELSE <<Head(subs)>> \o WithoutId(Tail(subs), id)

\* new Date() at tick t, and new Date(nextPaymentDate), in hours since the
\* epoch
Instant(t) == t * HoursPerTick + hourInTick

PaymentInstant(sub) == sub.nextPaymentDate * HoursPerTick

\* the map of checkExpiringSubscriptions
Expire(subs, t) ==
  [i \in DOMAIN subs |->
     IF /\ subs[i].nextPaymentDate # Undefined
        /\ subs[i].isActive
        /\ PaymentInstant(subs[i]) < Instant(t)
     THEN [subs[i] EXCEPT !.isActive = FALSE]
     ELSE subs[i]]

\* new Date(now.getTime() + 7 * 24 * 60 * 60 * 1000), in hours
sixDaysFromNow(h) == h + 6 * 24

sevenDaysFromNow(h) == h + 7 * 24

\* the filter of checkExpiringSubscriptions, on the mapped list
ExpiringSoonPaused(subs, h) ==
  LET soon(sub) ==
        /\ sub.nextPaymentDate # Undefined
        /\ PaymentInstant(sub) <= sevenDaysFromNow(h)
        /\ PaymentInstant(sub) >= h
  IN SelectSeq(subs, soon)

ExpiringSoon(subs, h) ==
  LET soon(sub) ==
        /\ sub.nextPaymentDate # Undefined
        /\ sub.isActive
        /\ PaymentInstant(sub) <= sevenDaysFromNow(h)
        /\ PaymentInstant(sub) >= h
  IN SelectSeq(subs, soon)

\* Date.getHours() and Date.getDay() of an instant; the epoch is a Monday
getHours(h) == h % 24

getDay(h) == ((h \div 24) + 1) % 7

checkNotificationFrequency(frequency, h) ==
  CASE frequency = "immediate" -> TRUE
    [] frequency = "daily" -> getHours(h) >= 9 /\ getHours(h) <= 17
    [] frequency = "weekly" -> getDay(h) = 1 /\ getHours(h) = 10
    [] OTHER -> FALSE

\* the subscriptions showNotification is called for
Notified(settings, subs, h) ==
  IF /\ settings.browserNotifications
     /\ checkNotificationFrequency(settings.notificationFrequency, h)
  THEN {ExpiringSoon(subs, h)[i].id : i \in DOMAIN ExpiringSoon(subs, h)}
  ELSE {}

\* what a handler does to the list it was given: the list it writes (or
\* "none" in write when it writes nothing) and its response
Handle(task, subs, t, newId) ==
  CASE task.op = "add" ->
         [write |-> TRUE,
          subs |-> Append(subs, NewWorkerSubscription(newId, task.arg, t)),
          resp |-> "success"]
    [] task.op = "update" ->
         LET index == findIndex(subs, task.id) IN
         IF index # 0
         THEN [write |-> TRUE,
               subs |-> [subs EXCEPT ![index] = Spread(subs[index], task.arg, t)],
               resp |-> "success"]
         ELSE [write |-> FALSE, subs |-> subs, resp |-> "NotFound"]
    [] task.op = "delete" ->
         [write |-> TRUE, subs |-> WithoutId(subs, task.id), resp |-> "success"]
    [] task.op = "sweep" ->
         [write |-> Expire(subs, t) # subs, subs |-> Expire(subs, t),
          resp |-> ret]

\* the popup operation waiting for this handler's response goes on
Replied(task, resp) ==
  IF task.reply
  THEN IF resp = "success" THEN IdlePop ELSE [pop EXCEPT !.pc = "fallback"]
  ELSE pop

Finish(slot) ==
  LET task == bg[slot]
      h == Handle(task, task.snap, now, idCounter + 1)
  IN /\ task.op # "idle"
     /\ stored' = IF h.write THEN h.subs ELSE stored
     /\ idCounter' = IF task.op = "add" THEN idCounter + 1 ELSE idCounter
     /\ ret' = h.resp
     /\ pop' = Replied(task, h.resp)
     /\ bg' = [bg EXCEPT ![slot] = IdleTask]
     /\ expiringSoon' =
          IF task.op = "sweep" /\ task.arg.browserNotifications
          THEN ExpiringSoon(h.subs, Instant(now))
          ELSE expiringSoon
     /\ reminded' =
          IF task.op = "sweep"
          THEN reminded \cup Notified(task.arg, h.subs, Instant(now))
          ELSE reminded
     /\ UNCHANGED <<now, dmVars, winSubs, budgetVars, notificationSettings,
                 hourInTick, trendVars, settingsVars>>

\* chrome.alarms 'checkExpiringSubscriptions', periodInMinutes: 60: an hour
\* goes by, the alarm fires and the storage read of the run is served
HourlyAlarm(slot) ==
  /\ \A other \in Slots : bg[other].op = "idle"
  /\ FirstFree(slot)
  /\ Instant(now) < MaxAlarmHours
  /\ hourInTick' = (hourInTick + 1) % HoursPerTick
  /\ now' = IF hourInTick + 1 = HoursPerTick THEN now + 1 ELSE now
  /\ bg' = [bg EXCEPT ![slot] = Task("sweep", 0, notificationSettings, FALSE)]
  /\ UNCHANGED <<stored, idCounter, ret, dmVars, pop, winSubs, budgetVars,
                 notificationSettings, expiringSoon, reminded, trendVars, settingsVars>>

\* popup saveNotificationSettings: the form's values go to storage
saveNotificationSettings(browserNotifications, frequency) ==
  /\ notificationSettings' =
       [browserNotifications |-> browserNotifications,
        notificationFrequency |-> frequency]
  /\ UNCHANGED <<now, stored, idCounter, ret, dmVars, workerVars, budgetVars,
                 hourInTick, expiringSoon, reminded, trendVars, settingsVars>>

\* ------------------------------------------- popup: reactivateSubscription
\* sendMessage({type: 'updateSubscription', id, data: {isActive: true}})
reactivateSubscription(slot, id) ==
  /\ pop.op = "idle"
  /\ FirstFree(slot)
  /\ bg' = [bg EXCEPT ![slot] = Task("update", id, [isActive |-> TRUE], TRUE)]
  /\ pop' = [IdlePop EXCEPT !.op = "reactivate", !.id = id, !.pc = "await"]
  /\ UNCHANGED <<now, stored, idCounter, ret, dmVars, winSubs, budgetVars,
                 alarmVars, trendVars, settingsVars>>

\* sendMessage throws (bgError): straight to the direct-storage fallback
reactivateSubscriptionNoWorker(id) ==
  /\ pop.op = "idle"
  /\ pop' = [IdlePop EXCEPT !.op = "reactivate", !.id = id, !.pc = "fallback"]
  /\ UNCHANGED <<now, stored, idCounter, ret, dmVars, bg, winSubs, budgetVars,
                 alarmVars, trendVars, settingsVars>>

\* window.subscriptions = result.subscriptions || []
reactivateFallbackGet ==
  /\ pop.op = "reactivate" /\ pop.pc = "fallback"
  /\ winSubs' = stored
  /\ pop' = [pop EXCEPT !.pc = "write"]
  /\ UNCHANGED <<now, stored, idCounter, ret, dmVars, bg, budgetVars,
                 alarmVars, trendVars, settingsVars>>

reactivateFallbackSet ==
  /\ pop.op = "reactivate" /\ pop.pc = "write"
  /\ LET index == findIndex(winSubs, pop.id) IN
     IF index # 0
     THEN /\ winSubs' = [winSubs EXCEPT ![index] =
                           [@ EXCEPT !.isActive = TRUE, !.updatedAt = now]]
          /\ stored' = winSubs'
          /\ ret' = "success"
     ELSE /\ ret' = "silent"
          /\ UNCHANGED <<winSubs, stored>>
  /\ pop' = IdlePop
  /\ UNCHANGED <<now, idCounter, dmVars, bg, budgetVars,
                 alarmVars, trendVars, settingsVars>>

\* ---------------------------------------------- DataManager: categories
\* Array.prototype.indexOf, 1-based, 0 when absent
RECURSIVE IndexFrom(_, _, _)
IndexFrom(seq, x, i) ==
  IF i > Len(seq) THEN 0
  ELSE IF seq[i] = x THEN i
  ELSE IndexFrom(seq, x, i + 1)

indexOf(seq, x) == IndexFrom(seq, x, 1)

\* Array.prototype.splice(index, 1)
SpliceOne(seq, index) ==
  [i \in 1..(Len(seq) - 1) |-> IF i < index THEN seq[i] ELSE seq[i + 1]]

\* subs.map(sub => sub.category === categoryName
\*                   ? { ...sub, category: 'other' } : sub)
MoveToOther(subs, categoryName) ==
  [i \in DOMAIN subs |->
     IF subs[i].category = categoryName
     THEN [subs[i] EXCEPT !.category = "other"]
     ELSE subs[i]]

addCategory(categoryName) ==
  /\ IF categoryName \notin Range(dmCategories)
     THEN /\ dmCategories' = Append(dmCategories, categoryName)
          /\ stored' = dmSubs
          /\ budgetSettings' = dmBudgetSettings
     ELSE UNCHANGED <<dmCategories, stored, budgetSettings>>
  /\ ret' = Outcome("addCategory", 0, "none")
  /\ UNCHANGED <<now, dmSubs, pauseLog, resumes, idCounter, workerVars,
                 budgetVars,
                 alarmVars, trendVars,
                 dmBudgetSettings, budgetVerdict,
                 premiumVars>>

removeCategory(categoryName) ==
  LET index == indexOf(dmCategories, categoryName) IN
  /\ IF index # 0 /\ Len(dmCategories) > 1
     THEN /\ dmCategories' = SpliceOne(dmCategories, index)
          /\ dmSubs' = MoveToOther(dmSubs, categoryName)
          /\ stored' = dmSubs'
          /\ budgetSettings' = dmBudgetSettings
     ELSE UNCHANGED <<dmCategories, dmSubs, stored, budgetSettings>>
  /\ ret' = Outcome("removeCategory", 0, "none")
  /\ UNCHANGED <<now, pauseLog, resumes, idCounter, workerVars, budgetVars,
                 alarmVars, trendVars,
                 dmBudgetSettings, budgetVerdict,
                 premiumVars>>

\* --------------------------------------------- DataManager budgetSettings
\* the budgetSettings object; a field that is not there is Undefined
BudgetSettings(limit, threshold, monthlyBudget, alertThreshold) ==
  [limit |-> limit, threshold |-> threshold, monthlyBudget |-> monthlyBudget,
   alertThreshold |-> alertThreshold]

\* no 'budgetSettings' key in chrome.storage.local
NoBudgetSettings == BudgetSettings(Undefined, Undefined, Undefined, Undefined)

getDefaultBudgetSettings == BudgetSettings(Undefined, Undefined, 0, 80)

\* { ...base, ...over }
Overlay(base, over) ==
  [field \in DOMAIN base |->
     IF over[field] # Undefined THEN over[field] ELSE base[field]]

\* ------------------------------------------------- DataManager importData
\* an id that no generateId call produces, as an imported file may carry
ForeignId == MaxIds + 1

\* the merge filter: sub.name && sub.price !== undefined
MergeValid(subs) ==
  LET valid(sub) == sub.name # "" IN SelectSeq(subs, valid)

\* the filter of validateSubscriptions: a name, a numeric price, a category
ReplaceValid(subs) ==
  LET valid(sub) == sub.name # "" /\ sub.category # "" IN SelectSeq(subs, valid)

\* the ids in subs that are missing (falsy)
Missing(subs, n) == Cardinality({k \in 1..n : subs[k].id = 0})

\* validateSubscriptions: id: sub.id || this.generateId(), the ids generated
\* in list order after counter, and updatedAt: new Date()
validateSubscriptions(subs, counter, t) ==
  LET kept == ReplaceValid(subs) IN
  [n \in DOMAIN kept |->
     [kept[n] EXCEPT !.id = IF @ = 0 THEN counter + Missing(kept, n) ELSE @,
                     !.updatedAt = t]]

\* idMap.has(sub.id) when the map reaches the n-th subscription
Duplicate(subs, n) == \E i \in 1..(n - 1) : subs[i].id = subs[n].id

Duplicates(subs, n) == Cardinality({k \in 1..n : Duplicate(subs, k)})

\* deduplicateSubscriptionIds, the ids generated in list order after counter
deduplicateSubscriptionIds(subs, counter) ==
  [n \in DOMAIN subs |->
     IF Duplicate(subs, n)
     THEN [subs[n] EXCEPT !.id = counter + Duplicates(subs, n)]
     ELSE subs[n]]

\* [...new Set(seq)]
RECURSIVE Distinct(_)
Distinct(seq) ==
  IF seq = <<>> THEN <<>>
  ELSE LET front == Distinct(SubSeq(seq, 1, Len(seq) - 1)) IN
       IF seq[Len(seq)] \in Range(front) THEN front
       ELSE Append(front, seq[Len(seq)])

\* importData(jsonData, merge); data.categories is absent or an array
importData(data, merge) ==
  LET kept == ReplaceValid(data.subscriptions)
      taken == IF merge THEN dmSubs \o MergeValid(data.subscriptions)
               ELSE validateSubscriptions(data.subscriptions, idCounter, now)
      counter == IF merge THEN idCounter
                 ELSE idCounter + Missing(kept, Len(kept))
  IN /\ counter + Duplicates(taken, Len(taken)) <= MaxIds
     /\ IF ~data.version
        THEN /\ ret' = Outcome("import", 0, "ImportFailed")
             /\ UNCHANGED <<dmSubs, dmCategories, stored, budgetSettings, idCounter,
                         pauseLog, dmBudgetSettings>>
        ELSE /\ dmSubs' = deduplicateSubscriptionIds(taken, counter)
             /\ stored' = dmSubs'
             /\ dmBudgetSettings' =
                  LET base == IF merge THEN dmBudgetSettings
                              ELSE getDefaultBudgetSettings
                  IN IF "budgetSettings" \in DOMAIN data
                     THEN Overlay(base, data.budgetSettings)
                     ELSE base
             /\ budgetSettings' = dmBudgetSettings'
             /\ dmCategories' =
                  IF merge
                  THEN Distinct(dmCategories \o
                                  (IF data.hasCategories THEN data.categories
                                   ELSE <<>>))
                  ELSE IF data.hasCategories THEN data.categories
                  ELSE dmCategories
             /\ idCounter' = counter + Duplicates(taken, Len(taken))
             /\ pauseLog' = [id \in DOMAIN pauseLog |-> NoPause]
             /\ ret' = Outcome("import", 0, "true")
     /\ UNCHANGED <<now, resumes, workerVars, budgetVars, alarmVars, trendVars,
                    budgetVerdict,
                 premiumVars>>

\* ---------------------------------------------- popup: window.subscriptions
\* the getAllData response is { success, data: { subscriptions, ... } }, so
\* response.subscriptions is undefined; without the worker the list comes
\* straight from storage
loadSubscriptions(viaWorker) ==
  /\ winSubs' = IF viaWorker THEN <<>> ELSE stored
  /\ UNCHANGED <<now, stored, idCounter, ret, dmVars, bg, pop, budgetVars,
                 alarmVars, trendVars, settingsVars>>

\* ------------------------------------------------- popup: category budgets
EmptyMap == [key \in {} |-> 0]

Restrict(map, keys) == [key \in keys |-> map[key]]

\* [...defaultCategories, ...customCategories]
AllCategories(custom) == DefaultCategories \o custom

\* values holds what each budget-<category> input shows; an input exists
\* only for a category on display
saveCategoryBudgets(values) ==
  /\ categoryBudgets' =
       Restrict(values,
                {category \in DOMAIN values \cap Range(AllCategories(customCategories)) :
                   values[category] > 0})
  /\ UNCHANGED <<now, stored, idCounter, ret, dmVars, workerVars,
                 customCategories, rolloverSettings, rolloverData, lastRun,
                 outVars,
                 alarmVars, trendVars, settingsVars>>

addCustomCategory(normalizedName) ==
  /\ pop.op = "idle"
  /\ IF normalizedName \in Range(AllCategories(customCategories))
     THEN UNCHANGED customCategories
     ELSE /\ Len(customCategories) < MaxCustom
          /\ customCategories' = Append(customCategories, normalizedName)
  /\ UNCHANGED <<now, stored, idCounter, ret, dmVars, workerVars,
                 categoryBudgets, rolloverSettings, rolloverData, lastRun,
                 outVars,
                 alarmVars, trendVars, settingsVars>>

\* confirm() accepted; the get of customCategories and categoryBudgets served
removeCustomCategory(categoryName) ==
  /\ pop.op = "idle"
  /\ pop' = [IdlePop EXCEPT !.op = "removeCategory", !.pc = "set",
                            !.arg = categoryName,
                            !.snap = <<customCategories, categoryBudgets>>]
  /\ UNCHANGED <<now, stored, idCounter, ret, dmVars, bg, winSubs, budgetVars,
                 alarmVars, trendVars, settingsVars>>

\* set({ customCategories: updatedCategories, categoryBudgets })
removeCustomCategorySet ==
  /\ pop.op = "removeCategory" /\ pop.pc = "set"
  /\ customCategories' = SelectSeq(pop.snap[1], LAMBDA cat : cat # pop.arg)
  /\ categoryBudgets' = Restrict(pop.snap[2], DOMAIN pop.snap[2] \ {pop.arg})
  /\ pop' = [pop EXCEPT !.pc = "subs"]
  /\ UNCHANGED <<now, stored, idCounter, ret, dmVars, bg, winSubs,
                 rolloverSettings, rolloverData, lastRun,
                 outVars,
                 alarmVars, trendVars, settingsVars>>

\* the subscriptions read from storage are not used: the list written is
\* window.subscriptions with the category replaced
removeCustomCategorySubs ==
  /\ pop.op = "removeCategory" /\ pop.pc = "subs"
  /\ stored' = MoveToOther(winSubs, pop.arg)
  /\ pop' = IdlePop
  /\ UNCHANGED <<now, idCounter, ret, dmVars, bg, winSubs, budgetVars,
                 alarmVars, trendVars, settingsVars>>

\* --------------------------------------------------------- popup: rollover
\* rolloverSettings as read when nothing was saved: {}
NoSettings ==
  [enabled |-> FALSE, mode |-> "", percentage |-> Undefined,
   maxAmount |-> Undefined, expiry |-> "", updatedAt |-> Undefined]

\* percentage and maxAmount are the numbers typed; the min and max
\* attributes of the inputs are not checked when saving
saveRolloverSettings(enabled, mode, percentage, maxAmount, expiry) ==
  /\ rolloverSettings' =
       [enabled |-> enabled, mode |-> mode,
        percentage |-> IF percentage = 0 THEN 50 ELSE percentage,
        maxAmount |-> maxAmount, expiry |-> expiry,
        updatedAt |-> now]
  /\ lastRun' = Undefined
  /\ UNCHANGED <<now, stored, idCounter, ret, dmVars, workerVars,
                 customCategories, categoryBudgets, rolloverData, outVars,
                 alarmVars, trendVars, settingsVars>>

\* date.toISOString().slice(0, 7): 'YYYY-MM', written here as YYYY * 100 + MM
MonthKey(t) == getFullYear(t) * 100 + getMonth(t) + 1

\* new Date(month + '-01'): its getFullYear() and getMonth()
KeyYear(month) == month \div 100
KeyMonth(month) == (month % 100) - 1

parseInt(str) ==
  CASE str = "1"  -> 1
    [] str = "3"  -> 3
    [] str = "6"  -> 6
    [] str = "12" -> 12

Max(a, b) == IF a >= b THEN a ELSE b
Min(a, b) == IF a <= b THEN a ELSE b

\* categorySpending[category] || 0, summed over the active subscriptions
RECURSIVE CategorySpending(_, _)
CategorySpending(subs, category) ==
  IF subs = <<>> THEN 0
  ELSE (IF Head(subs).isActive /\ Head(subs).category = category
        THEN Head(subs).price ELSE 0)
       + CategorySpending(Tail(subs), category)

\* the switch on settings.mode; the amounts used are such that
\* unusedAmount * percentage is a multiple of 100
RolloverAmount(settings, budgetAmount, unusedAmount) ==
  CASE settings.mode = "full"       -> unusedAmount
    [] settings.mode = "percentage" ->
         (unusedAmount * settings.percentage) \div 100
    [] settings.mode = "fixed"      -> Min(unusedAmount, settings.maxAmount)
    [] OTHER                        -> 0

CategoryRollover(settings, budgetAmount, spentAmount) ==
  LET unusedAmount == Max(0, budgetAmount - spentAmount) IN
  [budgetAmount |-> budgetAmount,
   spentAmount |-> spentAmount,
   unusedAmount |-> unusedAmount,
   rolloverAmount |-> RolloverAmount(settings, budgetAmount, unusedAmount)]

RECURSIVE TotalAmount(_, _)
RECURSIVE ExistingRolloverTotal(_, _)
TotalAmount(categories, left) ==
  IF left = {} THEN 0
  ELSE LET category == CHOOSE c \in left : TRUE
       IN categories[category].rolloverAmount
          + TotalAmount(categories, left \ {category})

MonthlyRollover(settings, budgets, subs, t) ==
  LET all == [category \in DOMAIN budgets |->
                CategoryRollover(settings, budgets[category],
                                 CategorySpending(subs, category))]
      categories == Restrict(all, {category \in DOMAIN budgets :
                                     all[category].rolloverAmount > 0})
  IN [processed |-> TRUE,
      processedAt |-> t,
      categories |-> categories,
      totalAmount |-> TotalAmount(categories, DOMAIN categories)]

MonthsDiff(t, month) ==
  (getFullYear(t) - KeyYear(month)) * 12 + (getMonth(t) - KeyMonth(month))

\* the clean-up of expired rollovers
Purge(data, settings, t) ==
  IF settings.expiry # "never"
  THEN Restrict(data, {month \in DOMAIN data :
                         ~(MonthsDiff(t, month) >= parseInt(settings.expiry))})
  ELSE data

Put(map, key, value) ==
  [k \in DOMAIN map \cup {key} |-> IF k = key THEN value ELSE map[k]]

processMonthlyRollover ==
  LET lastMonthKey == MonthKey(setMonth(now, getMonth(now) - 1)) IN
  /\ winSubs' = stored
  /\ IF ~rolloverSettings.enabled
     THEN UNCHANGED <<rolloverData, lastRun>>
     ELSE /\ lastRun' = MonthKey(now)
          /\ IF /\ lastMonthKey \in DOMAIN rolloverData
                /\ rolloverData[lastMonthKey].processed
             THEN UNCHANGED rolloverData
             ELSE rolloverData' =
                    Purge(Put(rolloverData, lastMonthKey,
                              MonthlyRollover(rolloverSettings, categoryBudgets,
                                              stored, now)),
                          rolloverSettings, now)
  /\ UNCHANGED <<now, stored, idCounter, ret, dmVars, bg, pop,
                 customCategories, categoryBudgets, rolloverSettings, outVars,
                 alarmVars, trendVars, settingsVars>>

\* a slip: the expiry filter left out, every entry counted
ActiveRolloversAll(data, settings, t) == DOMAIN data

\* the entries of rolloverData that updateRolloverStatus still counts
ActiveRollovers(data, settings, t) ==
  {month \in DOMAIN data :
     \/ settings.expiry = "never"
     \/ MonthsDiff(t, month) < parseInt(settings.expiry)}

\* existingRolloverTotal += data.totalAmount || 0
ExistingRolloverTotal(data, months) ==
  IF months = {} THEN 0
  ELSE LET month == CHOOSE m \in months : TRUE
       IN data[month].totalAmount
          + ExistingRolloverTotal(data, months \ {month})

\* totalRolloverAvailable: this month's rollover as it would be now
TotalRolloverAvailable(settings, budgets, subs) ==
  LET all == [category \in DOMAIN budgets |->
                CategoryRollover(settings, budgets[category],
                                 CategorySpending(subs, category))]
  IN TotalAmount(all, {category \in DOMAIN budgets :
                         all[category].rolloverAmount > 0})

\* the amount shown after "Available Rollover:"; nothing is redrawn while
\* rollover is disabled
updateRolloverStatus ==
  /\ winSubs' = stored
  /\ rolloverStatus' =
       IF ~rolloverSettings.enabled THEN rolloverStatus
       ELSE TotalRolloverAvailable(rolloverSettings, categoryBudgets, stored)
            + ExistingRolloverTotal(rolloverData,
                ActiveRollovers(rolloverData, rolloverSettings, now))
  /\ UNCHANGED <<now, stored, idCounter, ret, dmVars, bg, pop,
                 customCategories, categoryBudgets, rolloverSettings,
                 rolloverData, lastRun, alarmVars, trendVars, settingsVars>>

\* the clock moves on to a later day of the year
AdvanceTo(t) ==
  /\ t > now
  /\ now' = t
  /\ UNCHANGED <<stored, idCounter, ret, dmVars, workerVars, budgetVars,
                 alarmVars, trendVars, settingsVars>>

\* ------------------------------------------------- DataManager analytics
\* Amounts are exact, in twelfths of the currency unit: price / 3 and
\* price / 12 of a whole price are whole numbers of twelfths.
Twelfths == 12

\* a slip: the division of the yearly case left out
calculateMonthlyRateYearlyFlat(subscription) ==
  CASE subscription.billingCycle = "quarterly" ->
         (subscription.price * Twelfths) \div 3
    [] OTHER -> subscription.price * Twelfths

calculateMonthlyRate(subscription) ==
  CASE subscription.billingCycle = "monthly" -> subscription.price * Twelfths
    [] subscription.billingCycle = "quarterly" ->
         (subscription.price * Twelfths) \div 3
    [] subscription.billingCycle = "yearly" ->
         (subscription.price * Twelfths) \div 12
    [] subscription.billingCycle = "custom" -> subscription.price * Twelfths
    [] OTHER -> subscription.price * Twelfths

\* map[key] || 0
OrZeroAt(map, key) == IF key \in DOMAIN map THEN map[key] ELSE 0

\* the forEach of getMonthlySpending over the first n subscriptions
RECURSIVE MonthlySpendingUpTo(_, _, _)
MonthlySpendingUpTo(subs, n, monthYear) ==
  IF n = 0 THEN EmptyMap
  ELSE LET monthlySpending == MonthlySpendingUpTo(subs, n - 1, monthYear) IN
       IF subs[n].isActive
       THEN Put(monthlySpending, monthYear,
                OrZeroAt(monthlySpending, monthYear)
                  + calculateMonthlyRate(subs[n]))
       ELSE monthlySpending

getMonthlySpending(subs, t) == MonthlySpendingUpTo(subs, Len(subs), MonthKey(t))

\* the forEach of getSpendingByCategory over the first n subscriptions
RECURSIVE SpendingByCategoryUpTo(_, _)
SpendingByCategoryUpTo(subs, n) ==
  IF n = 0 THEN EmptyMap
  ELSE LET spendingByCategory == SpendingByCategoryUpTo(subs, n - 1) IN
       IF subs[n].isActive
       THEN Put(spendingByCategory, subs[n].category,
                OrZeroAt(spendingByCategory, subs[n].category)
                  + calculateMonthlyRate(subs[n]))
       ELSE spendingByCategory

getSpendingByCategory(subs) == SpendingByCategoryUpTo(subs, Len(subs))

\* Object.values(map).reduce((sum, amount) => sum + amount, 0)
RECURSIVE SumValues(_, _)
SumValues(map, keys) ==
  IF keys = {} THEN 0
  ELSE LET key == CHOOSE k \in keys : TRUE
       IN map[key] + SumValues(map, keys \ {key})

MonthlyTotal(monthlySpending) == SumValues(monthlySpending, DOMAIN monthlySpending)

\* a slip: Math.floor in place of Math.round
FlooredPercent(a, b) == (100 * a) \div b

\* Math.round(a / b * 100) of amounts a >= 0, b > 0: halves go up
RoundedPercent(a, b) == (200 * a + b) \div (2 * b)

\* Object.entries(spending): the keys in the order they were first set
RECURSIVE EntriesUpTo(_, _)
EntriesUpTo(subs, n) ==
  IF n = 0 THEN <<>>
  ELSE LET entries == EntriesUpTo(subs, n - 1) IN
       IF subs[n].isActive /\ indexOf(entries, subs[n].category) = 0
       THEN Append(entries, subs[n].category)
       ELSE entries

\* Array.prototype.sort((a, b) => b.amount - a.amount), which is stable
RECURSIVE SortByAmount(_)
InsertByAmount(sorted, entry) ==
  LET before == {i \in DOMAIN sorted : sorted[i].amount >= entry.amount}
      k == Cardinality(before)
  IN SubSeq(sorted, 1, k) \o <<entry>> \o SubSeq(sorted, k + 1, Len(sorted))

SortByAmount(entries) ==
  IF entries = <<>> THEN <<>>
  ELSE InsertByAmount(SortByAmount(SubSeq(entries, 1, Len(entries) - 1)),
                      entries[Len(entries)])

getCategoryBreakdown(subs) ==
  LET spending == getSpendingByCategory(subs)
      total == SumValues(spending, DOMAIN spending)
      keys == EntriesUpTo(subs, Len(subs))
  IN SortByAmount(
       [i \in DOMAIN keys |->
          [category |-> keys[i],
           amount |-> spending[keys[i]],
           percentage |-> IF total > 0
                          THEN RoundedPercent(spending[keys[i]], total)
                          ELSE 0]])

\* Math.round(num / den), den > 0: halves go towards +Infinity
MathRound(num, den) == (2 * num + den) \div (2 * den)

Abs(x) == IF x < 0 THEN 0 - x ELSE x

\* Object.keys(monthlyData).sort(): the last key and the one before it
LastKey(keys) == CHOOSE k \in keys : \A other \in keys : other <= k

getSpendingTrends(subs, t) ==
  LET monthlyData == getMonthlySpending(subs, t)
      months == DOMAIN monthlyData
  IN IF Cardinality(months) < 2
     THEN [trend |-> "stable", percentage |-> 0]
     ELSE LET currentMonth == LastKey(months)
              previousMonth == LastKey(months \ {currentMonth})
              currentAmount == monthlyData[currentMonth]
              previousAmount == monthlyData[previousMonth]
          IN IF previousAmount = 0
             THEN [trend |-> "up", percentage |-> 100]
             ELSE [trend |-> IF currentAmount > previousAmount THEN "up"
                             ELSE IF currentAmount < previousAmount THEN "down"
                             ELSE "stable",
                   percentage |->
                     Abs(MathRound((currentAmount - previousAmount) * 100,
                                   previousAmount))]

\* the month of the clock ends: the total it ends with goes down in the
\* history and the clock stands at the first of the next month
MonthEnds ==
  /\ getMonth(now) < MaxSpendMonth
  /\ spendHistory' =
       Put(spendHistory, MonthKey(now), MonthlyTotal(getMonthlySpending(dmSubs, now)))
  /\ now' = DateTick(getFullYear(now), getMonth(now) + 1, 1)
  /\ UNCHANGED <<stored, idCounter, ret, dmVars, workerVars, budgetVars,
                 alarmVars, settingsVars>>

\* ------------------------------------------------------------ budget status
Checks == {"dataManager", "popup", "worker"}

\* what a budget check tells the user
Verdict(isOverBudget, isNearBudget) ==
  IF isOverBudget THEN "over" ELSE IF isNearBudget THEN "near" ELSE "within"

\* DataManager.checkBudget; currentSpending is in twelfths
checkBudget(subs, settings, t) ==
  LET currentSpending == OrZeroAt(getMonthlySpending(subs, t), MonthKey(t)) IN
  IF settings.monthlyBudget > 0
  THEN Verdict(currentSpending * 100 > 100 * settings.monthlyBudget * Twelfths,
               /\ settings.alertThreshold # Undefined
               /\ currentSpending * 100
                    > settings.alertThreshold * settings.monthlyBudget * Twelfths)
  ELSE "null"

\* subscriptions.filter(sub => sub.isActive)
\*              .reduce((sum, sub) => sum + sub.price, 0)
RECURSIVE TotalSpentUpTo(_, _)
TotalSpentUpTo(subs, n) ==
  IF n = 0 THEN 0
  ELSE TotalSpentUpTo(subs, n - 1)
         + (IF subs[n].isActive THEN subs[n].price ELSE 0)

totalSpent(subs) == TotalSpentUpTo(subs, Len(subs))

\* settings.threshold || 80
ThresholdOrDefault(threshold) ==
  IF threshold = Undefined \/ threshold = 0 THEN 80 ELSE threshold

\* the comparisons both the popup and the worker make on the rounded percentage
RoundedVerdict(subs, settings) ==
  LET percentage == MathRound(totalSpent(subs) * 100, settings.limit) IN
  Verdict(percentage > 100, percentage > ThresholdOrDefault(settings.threshold))

\* settings.limit is truthy
HasLimit(settings) == settings.limit # Undefined /\ settings.limit # 0

\* popup: what updateBudgetStatus writes into #budgetStatus
BudgetStatusShown(subs, settings) ==
  IF HasLimit(settings) THEN RoundedVerdict(subs, settings) ELSE "unset"

updateBudgetStatus ==
  /\ winSubs' = stored
  /\ budgetVerdict' =
       [budgetVerdict EXCEPT !["popup"] = BudgetStatusShown(stored, budgetSettings)]
  /\ UNCHANGED <<now, stored, idCounter, ret, dmVars, bg, pop, budgetVars,
                 alarmVars, trendVars, budgetSettings, dmBudgetSettings,
                 premiumVars>>

\* popup: saveBudgetSettings with both fields filled in
saveBudgetSettings(budgetLimit, alertThreshold) ==
  /\ budgetSettings' =
       BudgetSettings(budgetLimit, alertThreshold, Undefined, Undefined)
  /\ UNCHANGED <<now, stored, idCounter, ret, dmVars, workerVars, budgetVars,
                 alarmVars, trendVars, dmBudgetSettings, budgetVerdict,
                 premiumVars>>

\* worker: checkBudgetAlerts; "silent" is the early return, and no
\* notification is created for a percentage within the threshold
checkBudgetAlerts ==
  /\ budgetVerdict' =
       [budgetVerdict EXCEPT !["worker"] =
          IF ~HasLimit(budgetSettings)
             \/ ~notificationSettings.browserNotifications
          THEN "silent"
          ELSE RoundedVerdict(stored, budgetSettings)]
  /\ UNCHANGED <<now, stored, idCounter, ret, dmVars, workerVars, budgetVars,
                 alarmVars, trendVars, budgetSettings, dmBudgetSettings,
                 premiumVars>>

\* DataManager.loadAllData
loadAllData ==
  /\ dmSubs' = stored
  /\ dmBudgetSettings' =
       IF budgetSettings = NoBudgetSettings THEN getDefaultBudgetSettings
       ELSE budgetSettings
  /\ pauseLog' = [id \in DOMAIN pauseLog |-> NoPause]
  /\ UNCHANGED <<now, stored, idCounter, ret, dmCategories, resumes,
                 workerVars, budgetVars, alarmVars, trendVars, budgetSettings,
                 budgetVerdict,
                 premiumVars>>

\* a call of DataManager.checkBudget
callCheckBudget ==
  /\ budgetVerdict' =
       [budgetVerdict EXCEPT !["dataManager"] =
          checkBudget(dmSubs, dmBudgetSettings, now)]
  /\ UNCHANGED <<now, stored, idCounter, ret, dmVars, workerVars, budgetVars,
                 alarmVars, trendVars, budgetSettings, dmBudgetSettings,
                 premiumVars>>

\* ----------------------------------------------------------- PremiumManager
FreeFeatures ==
  {"basic_subscription_management", "simple_notifications",
   "basic_budget_tracking", "basic_analytics", "theme_toggle", "basic_export"}

PremiumFeatures ==
  {"unlimited_subscriptions", "advanced_analytics", "analytics_dashboard",
   "ai_insights", "ai_categorization", "email_notifications",
   "custom_categories", "advanced_budgeting", "pdf_reports", "excel_export",
   "bank_integration", "mobile_sync"}

BusinessFeatures ==
  {"team_management", "admin_dashboard", "api_access", "white_labeling",
   "priority_support", "compliance_reporting"}

NoAnswer == [featureName |-> "", available |-> FALSE]

\* a trial of 14 days
trialDurationFourteen == 14 * TicksPerDay

\* 30 * 24 * 60 * 60 * 1000 ms
trialDuration == 30 * TicksPerDay

\* history[deviceId] && (Date.now() - history[deviceId] < 90 days)
hasTrialBeenUsed(t) ==
  deviceTrialHistory # Undefined /\ t - deviceTrialHistory < 90 * TicksPerDay

startTrial ==
  /\ IF hasTrialBeenUsed(now)
     THEN /\ premiumStatus' = "free"
          /\ UNCHANGED <<trialEndDate, trialStartTime, deviceTrialHistory>>
     ELSE /\ trialEndDate' = now + trialDuration
          /\ trialStartTime' = now
          /\ premiumStatus' = "trial"
          /\ deviceTrialHistory' = now
  /\ UNCHANGED <<now, stored, idCounter, ret, dmVars, workerVars, budgetVars,
                 alarmVars, trendVars, limitVars, expiring, lastAnswer>>

isPremium ==
  premiumStatus = "premium" \/ premiumStatus = "business"
    \/ premiumStatus = "trial"

isTrialActive(t) ==
  premiumStatus = "trial" /\ trialEndDate # Undefined /\ t < trialEndDate

\* the value isFeatureAvailable returns
FeatureAvailable(featureName, t) ==
  IF premiumStatus = "premium" \/ premiumStatus = "business" THEN TRUE
  ELSE IF premiumStatus = "trial"
  THEN IF trialEndDate # Undefined /\ t < trialEndDate
       THEN featureName \in PremiumFeatures \/ featureName \in FreeFeatures
       ELSE featureName \in FreeFeatures
  ELSE featureName \in FreeFeatures

\* isFeatureAvailable; on an expired trial it calls expireTrial, whose write
\* of 'free' lands after the call has returned
isFeatureAvailable(featureName) ==
  /\ lastAnswer' = [featureName |-> featureName,
                    available |-> FeatureAvailable(featureName, now)]
  /\ expiring' = (expiring \/ (premiumStatus = "trial" /\ ~isTrialActive(now)))
  /\ UNCHANGED <<now, stored, idCounter, ret, dmVars, workerVars, budgetVars,
                 alarmVars, trendVars, limitVars, premiumStatus, trialEndDate,
                 trialStartTime, deviceTrialHistory>>

\* expireTrial after its await: savePremiumStatusWithSecurity('free')
expireTrial ==
  /\ expiring
  /\ expiring' = FALSE
  /\ premiumStatus' = "free"
  /\ UNCHANGED <<now, stored, idCounter, ret, dmVars, workerVars, budgetVars,
                 alarmVars, trendVars, limitVars, trialEndDate, trialStartTime,
                 deviceTrialHistory, lastAnswer>>

\* more than any list holds
Infinity == 1000000

getSubscriptionLimit ==
  CASE premiumStatus = "free" -> 10
    [] premiumStatus \in {"trial", "premium", "business"} -> Infinity
    [] OTHER -> 10

\* -------------------------------------------------- popup: saveSubscription
\* the wrapper around showAddSubscription: checkSubscriptionLimit, then the form
showAddSubscription ==
  /\ pop.op = "idle"
  /\ IF Len(winSubs) >= getSubscriptionLimit
     THEN /\ ret' = "LimitReached"
          /\ UNCHANGED pop
     ELSE /\ ret' = "form"
          /\ pop' = [IdlePop EXCEPT !.op = "add", !.pc = "form"]
  /\ UNCHANGED <<now, stored, idCounter, dmVars, bg, winSubs, budgetVars,
                 alarmVars, trendVars, settingsVars>>

\* saveSubscription with a valid form:
\* sendMessage({type: 'addSubscription', data: subscriptionData})
saveSubscription(slot, data) ==
  /\ pop.op = "add" /\ pop.pc = "form"
  /\ idCounter + InFlight("add") < MaxIds
  /\ FirstFree(slot)
  /\ bg' = [bg EXCEPT ![slot] = Task("add", 0, data, TRUE)]
  /\ pop' = [pop EXCEPT !.pc = "await", !.arg = data]
  /\ UNCHANGED <<now, stored, idCounter, ret, dmVars, winSubs, budgetVars,
                 alarmVars, trendVars, settingsVars>>

\* sendMessage throws (bgError): straight to the direct-storage fallback
saveSubscriptionNoWorker(data) ==
  /\ pop.op = "add" /\ pop.pc = "form"
  /\ pop' = [pop EXCEPT !.pc = "fallback", !.arg = data]
  /\ UNCHANGED <<now, stored, idCounter, ret, dmVars, bg, winSubs, budgetVars,
                 alarmVars, trendVars, settingsVars>>

\* window.subscriptions = result.subscriptions || [], then the premium check
saveFallbackGet ==
  /\ pop.op = "add" /\ pop.pc = "fallback"
  /\ winSubs' = stored
  /\ IF ~isPremium /\ Len(stored) >= 10
     THEN /\ pop' = IdlePop
          /\ ret' = "LimitReached"
     ELSE /\ pop' = [pop EXCEPT !.pc = "write"]
          /\ UNCHANGED ret
  /\ UNCHANGED <<now, stored, idCounter, dmVars, bg, budgetVars,
                 alarmVars, trendVars, settingsVars>>

\* window.subscriptions.push(newSubscription); set({ subscriptions })
saveFallbackSet ==
  /\ pop.op = "add" /\ pop.pc = "write"
  /\ idCounter + InFlight("add") < MaxIds
  /\ winSubs' = Append(winSubs, NewWorkerSubscription(idCounter + 1, pop.arg, now))
  /\ stored' = winSubs'
  /\ idCounter' = idCounter + 1
  /\ ret' = "success"
  /\ pop' = IdlePop
  /\ UNCHANGED <<now, dmVars, bg, budgetVars,
                 alarmVars, trendVars, settingsVars>>

\* ------------------------------------------------------------ construction
\* the DataManager constructed and loaded from a storage that holds the
\* subscriptions subs and nothing else; a fresh install has empty storage
\* the state a session starts in: subs in storage, counter ids generated so far
LoadedAt(subs, counter) ==
  /\ now = 0
  /\ stored = subs
  /\ dmSubs = subs
  /\ dmCategories = DefaultCategories
  /\ idCounter = counter
  /\ ret = Outcome("none", 0, "none")
  /\ pauseLog = [id \in AnyId \cup DmIds |-> NoPause]
  /\ resumes = 0
  /\ bg = [slot \in Slots |-> IdleTask]
  /\ pop = IdlePop
  /\ winSubs = <<>>
  /\ customCategories = <<>>
  /\ categoryBudgets = EmptyMap
  /\ rolloverSettings = NoSettings
  /\ rolloverData = EmptyMap
  /\ lastRun = Undefined
  /\ rolloverStatus = Undefined
  /\ notificationSettings = NoNotificationSettings
  /\ hourInTick = 0
  /\ expiringSoon = <<>>
  /\ reminded = {}
  /\ spendHistory = EmptyMap
  /\ budgetSettings = NoBudgetSettings
  /\ dmBudgetSettings = getDefaultBudgetSettings
  /\ budgetVerdict = [check \in Checks |-> "unknown"]
  /\ premiumStatus = "free"
  /\ trialEndDate = Undefined
  /\ trialStartTime = Undefined
  /\ deviceTrialHistory = Undefined
  /\ expiring = FALSE
  /\ lastAnswer = NoAnswer

Loaded(subs) == LoadedAt(subs, Len(subs))

Init == Loaded(<<>>)

SubData(name, price, category, billingCycle, nextPaymentDate, isActive) ==
  [name |-> name, price |-> price, category |-> category,
   billingCycle |-> billingCycle, nextPaymentDate |-> nextPaymentDate,
   isActive |-> isActive]

\* ---------------------------------- DataManager pause / resume: SpecLife
LifeInputs ==
  {SubData("A", 12, "", "monthly", DateTick(2024, 0, 15), TRUE),
   SubData("A", 12, "", "", Undefined, TRUE)}

NextLife ==
  \/ \E data \in LifeInputs : addSubscription(data)
  \/ \E id \in DmIds : updateSubscription(id, [isActive |-> FALSE])
  \/ \E id \in DmIds : deleteSubscription(id)
  \/ \E id \in DmIds : pauseSubscription(id)
  \/ \E id \in DmIds : resumeSubscription(id)
  \/ Tick(MaxTime)

SpecLife == Init /\ [][NextLife]_vars

\* ------------------------------------- DataManager billing cycles: SpecCycle
CycleInputs ==
  {SubData("A", 12, "", "monthly", DateTick(2024, 0, 31), TRUE),
   SubData("B", 12, "", "monthly", DateTick(2024, 0, 15), TRUE),
   SubData("C", 12, "", "quarterly", DateTick(2024, 10, 30), TRUE),
   SubData("D", 12, "", "yearly", DateTick(2024, 1, 29), TRUE),
   SubData("E", 12, "", "custom", DateTick(2024, 2, 10), TRUE),
   SubData("F", 12, "", "", Undefined, TRUE),
   SubData("G", 12, "", "monthly", DateTick(2024, 2, 30), TRUE),
   SubData("", 12, "", "monthly", DateTick(2024, 0, 15), TRUE)}

NextCycle ==
  \/ \E data \in CycleInputs : addSubscription(data)
  \/ \E id \in DmIds : updateSubscription(id, [name |-> ""])
  \/ \E id \in DmIds : deleteSubscription(id)
  \/ \E id \in DmIds : pauseSubscription(id)
  \/ \E id \in DmIds : resumeSubscription(id)
  \/ \E id \in DmIds : skipNextPayment(id)

SpecCycle == Init /\ [][NextCycle]_vars

\* ------------------------------------------- background worker: SpecWorker
\* saveSubscription sends only a named subscription with a date not yet past
WorkerInputs == {SubData("A", 10, "other", "monthly", 0, TRUE)}

NextWorker ==
  \/ \E slot \in Slots, data \in WorkerInputs :
       data.nextPaymentDate >= now /\ handleAddSubscriptionStart(slot, data)
  \/ \E slot \in Slots, id \in AnyId :
       handleUpdateSubscriptionStart(slot, id, [price |-> 20])
  \/ \E slot \in Slots, id \in AnyId : handleDeleteSubscriptionStart(slot, id)
  \/ \E slot \in Slots : checkExpiringSubscriptionsStart(slot)
  \/ \E slot \in Slots : Finish(slot)
  \/ Tick(MaxWorkerTime)

SpecWorker == Init /\ [][NextWorker]_vars

\* ------------------------------------------ popup reactivation: SpecRevive
ReviveSlots == 1..MaxReviveTasks

NextRevive ==
  \/ \E slot \in ReviveSlots, data \in WorkerInputs :
       /\ data.nextPaymentDate >= now
       /\ idCounter + InFlight("add") < MaxReviveSubs
       /\ handleAddSubscriptionStart(slot, data)
  \/ \E slot \in ReviveSlots : checkExpiringSubscriptionsStart(slot)
  \/ \E slot \in ReviveSlots : Finish(slot)
  \/ \E slot \in ReviveSlots, id \in 0..(MaxReviveSubs + 1) :
       reactivateSubscription(slot, id)
  \/ \E id \in 0..(MaxReviveSubs + 1) : reactivateSubscriptionNoWorker(id)
  \/ reactivateFallbackGet
  \/ reactivateFallbackSet
  \/ Tick(MaxWorkerTime)

SpecRevive == Init /\ [][NextRevive]_vars

\* ------------------------------------------------- categories: SpecCategory
CategoryNames == {"other", "entertainment", "games"}

CategoryInputs ==
  {SubData("A", 12, "", "monthly", DateTick(2024, 0, 15), TRUE),
   SubData("A", 12, "entertainment", "monthly", DateTick(2024, 0, 15), TRUE),
   SubData("A", 12, "games", "monthly", DateTick(2024, 0, 15), TRUE)}

BudgetInputs == [{"other", "games"} -> {0, 100}]

NextCategory ==
  \/ \E data \in CategoryInputs : addSubscription(data)
  \/ \E categoryName \in CategoryNames : addCategory(categoryName)
  \/ \E categoryName \in CategoryNames : removeCategory(categoryName)
  \/ updateBudgetStatus
  \/ \E viaWorker \in BOOLEAN : loadSubscriptions(viaWorker)
  \/ \E values \in BudgetInputs : saveCategoryBudgets(values)
  \/ \E name \in CategoryNames : addCustomCategory(name)
  \/ \E name \in Range(customCategories) : removeCustomCategory(name)
  \/ removeCustomCategorySet
  \/ removeCustomCategorySubs

SpecCategory == Init /\ [][NextCategory]_vars

\* ------------------------------------------- rollover amounts: SpecRollover
RolloverSubs == {SubData("A", 70, "other", "monthly", DateTick(2025, 0, 15), TRUE)}

RolloverBudgets == [{"other"} -> {0, 100}]

\* the 15th of each month the clock reaches, and the 31st where there is one
RolloverInstants ==
  {DateTick(EpochYear, m, 15) : m \in 0..MaxMonth}
  \cup {DateTick(EpochYear, m, 31) :
          m \in {mm \in 0..MaxMonth : DaysInMonth(EpochYear, mm) = 31}}

NextRollover ==
  \/ \E slot \in ReviveSlots, data \in RolloverSubs :
       /\ idCounter + InFlight("add") < MaxReviveSubs
       /\ handleAddSubscriptionStart(slot, data)
  \/ \E slot \in ReviveSlots : Finish(slot)
  \/ \E values \in RolloverBudgets : saveCategoryBudgets(values)
  \/ \E mode \in {"full", "percentage", "fixed"}, percentage \in {0, 50, 150} :
       saveRolloverSettings(TRUE, mode, percentage, 10, "never")
  \/ processMonthlyRollover
  \/ \E t \in {DateTick(EpochYear, m, 15) : m \in 0..1} : AdvanceTo(t)

SpecRollover == Init /\ [][NextRollover]_vars

\* ---------------------------------------------- rollover ledger: SpecLedger
RolloverExpiries == {"1", "3", "6", "12", "never"}

NextLedger ==
  \/ \E enabled \in BOOLEAN, expiry \in RolloverExpiries :
       saveRolloverSettings(enabled, "full", 0, 0, expiry)
  \/ processMonthlyRollover
  \/ \E t \in RolloverInstants : AdvanceTo(t)

SpecLedger == Init /\ [][NextLedger]_vars

\* ------------------------------------------- rollover status: SpecStatus
StatusBudgets == [{"other"} -> {0, 100}]

StatusInstants == {DateTick(EpochYear, m, 15) : m \in 2..MaxMonth}

\* the subscriptions are entered before the clock moves
NextStatus ==
  \/ \E slot \in ReviveSlots, data \in RolloverSubs :
       /\ now = 0
       /\ idCounter + InFlight("add") < MaxReviveSubs
       /\ handleAddSubscriptionStart(slot, data)
  \/ \E slot \in ReviveSlots : Finish(slot)
  \/ \E values \in StatusBudgets : saveCategoryBudgets(values)
  \/ \E expiry \in {"3", "never"} :
       saveRolloverSettings(TRUE, "full", 0, 0, expiry)
  \/ processMonthlyRollover
  \/ updateRolloverStatus
  \/ \E t \in StatusInstants : AdvanceTo(t)

SpecStatus == Init /\ [][NextStatus]_vars


\* ------------------------------------------- payment reminders: SpecAlarm
\* due Monday 15 January 2024, due Saturday 6 January, and without a date
AlarmSubs ==
  {SubData("A", 10, "other", "monthly", DateTick(EpochYear, 0, 15), TRUE),
   SubData("B", 10, "other", "monthly", DateTick(EpochYear, 0, 6), TRUE),
   SubData("C", 10, "other", "monthly", Undefined, TRUE)}

Frequencies == {"immediate", "daily", "weekly"}

\* the form's values: the browser notifications checkbox and the frequency
NotificationInputs ==
  {<<TRUE, frequency>> : frequency \in Frequencies} \cup {<<FALSE, "daily">>}

\* 4 January, before any payment, and 12 January, in the week before A's
PauseInstants == {DateTick(EpochYear, 0, 4), DateTick(EpochYear, 0, 12)}

\* subscriptions are added in the first hour and paused later, so that
\* updatedAt = createdAt tells the ones never paused
NextAlarm ==
  \/ \E slot \in ReviveSlots, data \in AlarmSubs :
       /\ Instant(now) = 0
       /\ idCounter + InFlight("add") < MaxReviveSubs
       /\ handleAddSubscriptionStart(slot, data)
  \/ \E slot \in ReviveSlots, id \in 1..MaxReviveSubs :
       /\ hourInTick = 0 /\ now \in PauseInstants
       /\ handleUpdateSubscriptionStart(slot, id, [isActive |-> FALSE])
  \/ \E slot \in ReviveSlots : Finish(slot)
  \/ \E input \in NotificationInputs :
       /\ Instant(now) = 0
       /\ saveNotificationSettings(input[1], input[2])
  \/ \E slot \in ReviveSlots : HourlyAlarm(slot)

SpecAlarm == Init /\ [][NextAlarm]_vars


\* --------------------------------------------- spending analytics: SpecSpend
SpendInputs ==
  {SubData("A", 12, "x", "yearly", Undefined, TRUE),
   SubData("B", 10, "x", "monthly", Undefined, TRUE),
   SubData("C", 12, "y", "quarterly", Undefined, TRUE),
   SubData("D", 10, "y", "custom", Undefined, TRUE),
   SubData("E", 0, "x", "monthly", Undefined, TRUE)}

SpendLists == UNION {[1..n -> SpendInputs] : n \in 0..MaxSpendSubs}

\* the DataManager starts from a stored list of subscriptions added earlier
InitSpend ==
  \E list \in SpendLists :
    Loaded([i \in DOMAIN list |-> NewSubscription(i, list[i], 0)])

NextSpend ==
  \/ \E id \in 1..MaxSpendSubs : pauseSubscription(id)
  \/ \E id \in 1..MaxSpendSubs : resumeSubscription(id)

SpecSpend == InitSpend /\ [][NextSpend]_vars

\* ------------------------------------------------ spending trend: SpecTrend
TrendInputs ==
  {SubData("B", 50, "x", "monthly", Undefined, TRUE),
   SubData("A", 120, "x", "yearly", Undefined, TRUE)}

TrendLists == UNION {[1..n -> TrendInputs] : n \in 0..MaxSpendSubs}

InitTrend ==
  \E list \in TrendLists :
    Loaded([i \in DOMAIN list |-> NewSubscription(i, list[i], 0)])

NextTrend ==
  \/ \E id \in 1..MaxSpendSubs : pauseSubscription(id)
  \/ \E id \in 1..MaxSpendSubs : resumeSubscription(id)
  \/ MonthEnds

SpecTrend == InitTrend /\ [][NextTrend]_vars


\* ------------------------------ DataManager and worker on one store: SpecStore
NextStore ==
  \/ \E data \in WorkerInputs : addSubscription(data)
  \/ \E data \in WorkerInputs : addSubscriptionSaveFails(data)
  \/ \E id \in DmIds : pauseSubscription(id)
  \/ \E id \in DmIds : resumeSubscription(id)
  \/ \E slot \in ReviveSlots, data \in WorkerInputs :
       /\ data.nextPaymentDate >= now
       /\ handleAddSubscriptionStart(slot, data)
  \/ \E slot \in ReviveSlots, id \in Ids :
       handleUpdateSubscriptionStart(slot, id, [price |-> 20])
  \/ \E slot \in ReviveSlots : Finish(slot)
  \/ Tick(MaxWorkerTime)

SpecStore == Init /\ [][NextStore]_vars


\* ----------------------------------------- validation of writes: SpecValid
\* a well-formed subscription, one without a name and one with a negative
\* price
ValidInputs ==
  {SubData("A", 10, "other", "monthly", 0, TRUE),
   SubData("", 10, "other", "monthly", 0, TRUE),
   SubData("A", -5, "other", "monthly", 0, TRUE)}

ValidUpdates == {[name |-> ""], [price |-> -5], [price |-> 20]}

NextValid ==
  \/ \E data \in ValidInputs : addSubscription(data)
  \/ \E id \in DmIds, u \in ValidUpdates : updateSubscription(id, u)
  \/ \E id \in DmIds : deleteSubscription(id)
  \/ \E slot \in ReviveSlots, data \in ValidInputs :
       /\ idCounter + InFlight("add") < MaxReviveSubs
       /\ handleAddSubscriptionStart(slot, data)
  \/ \E slot \in ReviveSlots, id \in Ids, u \in ValidUpdates :
       handleUpdateSubscriptionStart(slot, id, u)
  \/ \E slot \in ReviveSlots : Finish(slot)

SpecValid == Init /\ [][NextValid]_vars


\* ------------------------------------------- import and identity: SpecImport
\* a subscription as an exported file holds it; id 0 is a missing id
Imported(id, name, category) ==
  [id |-> id, name |-> name, price |-> 10, category |-> category,
   billingCycle |-> "monthly", nextPaymentDate |-> Undefined,
   isActive |-> TRUE, pausedAt |-> Undefined, skippedPayments |-> Undefined,
   createdAt |-> 0, updatedAt |-> 0]

ImportInputs ==
  {[version |-> TRUE, hasCategories |-> TRUE, categories |-> <<"games">>,
    subscriptions |-> <<Imported(1, "X", "games"), Imported(1, "Y", "other")>>],
   [version |-> TRUE, hasCategories |-> FALSE, categories |-> <<>>,
    subscriptions |-> <<Imported(0, "X", "music"), Imported(ForeignId, "", "")>>],
   [version |-> FALSE, hasCategories |-> FALSE, categories |-> <<>>,
    subscriptions |-> <<>>]}

ImportUpdates == {[id |-> ForeignId], [price |-> 20]}

ImportSubs == {SubData("A", 12, "games", "monthly", Undefined, TRUE)}

NextImport ==
  \/ \E data \in ImportSubs : addSubscription(data)
  \/ \E id \in AnyId, u \in ImportUpdates : updateSubscription(id, u)
  \/ \E id \in AnyId : deleteSubscription(id)
  \/ \E id \in AnyId : pauseSubscription(id)
  \/ \E id \in AnyId : resumeSubscription(id)
  \/ \E id \in AnyId : skipNextPayment(id)
  \/ \E data \in ImportInputs, merge \in BOOLEAN :
       /\ merge => Len(dmSubs) + Len(data.subscriptions) <= MaxStoreLen
       /\ importData(data, merge)

SpecImport == Init /\ [][NextImport]_vars


\* ---------------------------------------------------------- budget checks
\* one subscription, budget settings saved by the popup or imported by the
\* DataManager, and the three budget checks
BudgetSubs ==
  {SubData("A", 301, "other", "monthly", Undefined, TRUE),
   SubData("B", 250, "other", "monthly", Undefined, TRUE),
   SubData("C", 1200, "other", "yearly", Undefined, TRUE),
   SubData("D", 100, "other", "monthly", Undefined, FALSE)}

BudgetLimits == {300}

BudgetThresholds == {50, 80}

BudgetImports ==
  {[version |-> TRUE, hasCategories |-> FALSE, categories |-> <<>>,
    subscriptions |-> <<>>,
    budgetSettings |-> BudgetSettings(Undefined, Undefined, 300, 80)]}

NextBudget ==
  \/ \E data \in BudgetSubs : addSubscription(data)
  \/ \E id \in DmIds : pauseSubscription(id)
  \/ \E l \in BudgetLimits, th \in BudgetThresholds : saveBudgetSettings(l, th)
  \/ \E on \in BOOLEAN : saveNotificationSettings(on, "daily")
  \/ \E data \in BudgetImports : importData(data, TRUE)
  \/ loadAllData
  \/ updateBudgetStatus
  \/ checkBudgetAlerts
  \/ callCheckBudget

SpecBudget == Init /\ [][NextBudget]_vars


\* -------------------------------------------------------------- free trial
\* the trial, the clock and feature checks over a month; setupTrialLogic and
\* the popup's limit prompt call startTrial on the free status only
TrialFeatures == {"pdf_reports", "unlimited_subscriptions", "basic_export"}

NextTrial ==
  \/ Tick(MaxTrialTime)
  \/ premiumStatus = "free" /\ ~expiring /\ startTrial
  \/ \E featureName \in TrialFeatures : isFeatureAvailable(featureName)
  \/ expireTrial

SpecTrial == Init /\ [][NextTrial]_vars


\* ------------------------------------------------------ subscription limit
\* nine subscriptions saved in earlier sessions, the popup's add form with
\* the worker or the direct-storage fallback, and the trial
LimitInputs == {SubData("A", 10, "other", "monthly", DateTick(2024, 5, 1), TRUE)}

SavedEarlier ==
  [i \in 1..9 |->
     NewWorkerSubscription(100 + i, CHOOSE data \in LimitInputs : TRUE, 0)]

InitLimit == LoadedAt(SavedEarlier, 0)

NextLimit ==
  \/ \E viaWorker \in BOOLEAN : loadSubscriptions(viaWorker)
  \/ showAddSubscription
  \/ \E slot \in Slots, data \in LimitInputs : saveSubscription(slot, data)
  \/ \E data \in LimitInputs : saveSubscriptionNoWorker(data)
  \/ saveFallbackGet
  \/ saveFallbackSet
  \/ \E slot \in Slots : Finish(slot)
  \/ premiumStatus = "free" /\ ~expiring /\ startTrial
  \/ AdvanceTo(MaxTrialTime)
  \/ isFeatureAvailable("unlimited_subscriptions")
  \/ expireTrial

SpecLimit == InitLimit /\ [][NextLimit]_vars


\* ----------------------------------------------------- rollover spending
\* one subscription of each billing cycle, a budget for its category, and
\* the two rollover computations
SpentSubs ==
  {SubData("A", 70, "other", "monthly", DateTick(2025, 0, 15), TRUE),
   SubData("B", 90, "other", "quarterly", DateTick(2025, 0, 15), TRUE),
   SubData("C", 120, "other", "yearly", DateTick(2025, 0, 15), TRUE),
   SubData("D", 50, "other", "custom", DateTick(2025, 0, 15), TRUE)}

NextSpent ==
  \/ \E slot \in ReviveSlots, data \in SpentSubs :
       /\ now = 0
       /\ idCounter + InFlight("add") < MaxReviveSubs
       /\ handleAddSubscriptionStart(slot, data)
  \/ \E slot \in ReviveSlots : Finish(slot)
  \/ \E values \in StatusBudgets : saveCategoryBudgets(values)
  \/ saveRolloverSettings(TRUE, "full", 0, 0, "never")
  \/ processMonthlyRollover
  \/ updateRolloverStatus
  \/ AdvanceTo(DateTick(EpochYear, 1, 15))

SpecSpent == Init /\ [][NextSpent]_vars

\* ------------------------- close-out during a category removal: SpecCloseout
CloseoutSubs == {SubData("A", 70, "games", "monthly", DateTick(2025, 0, 15), TRUE)}

NextCloseout ==
  \/ \E slot \in ReviveSlots, data \in CloseoutSubs :
       /\ idCounter + InFlight("add") < MaxReviveSubs
       /\ handleAddSubscriptionStart(slot, data)
  \/ \E slot \in ReviveSlots : Finish(slot)
  \/ updateBudgetStatus
  \/ \E values \in BudgetInputs : saveCategoryBudgets(values)
  \/ addCustomCategory("games")
  \/ \E name \in Range(customCategories) : removeCustomCategory(name)
  \/ removeCustomCategorySet
  \/ removeCustomCategorySubs
  \/ saveRolloverSettings(TRUE, "full", 0, 0, "never")
  \/ processMonthlyRollover

SpecCloseout == Init /\ [][NextCloseout]_vars

\* ================================================================== claims
\* the other elements of a list are the same before and after the step
OthersSame(old, new, i) ==
  /\ Len(new) = Len(old)
  /\ \A j \in DOMAIN old : j # i => new[j] = old[j]

\* C1: a pause followed N whole days later by a resume, with nothing else
\* done to the subscription in between, leaves it active with
\* nextPaymentDate exactly N days after its value before the pause (N = 0:
\* the same value).
C1_PauseResumeShiftsByN ==
  [][\A id \in DmIds :
       (/\ resumeSubscription(id)
        /\ pauseLog[id].at # Undefined
        /\ pauseLog[id].npd # Undefined)
       => LET i == findIndex(dmSubs', id)
              N == (now - pauseLog[id].at) \div TicksPerDay
          IN /\ i # 0
             /\ dmSubs'[i].isActive
             /\ dmSubs'[i].nextPaymentDate = pauseLog[id].npd + N * TicksPerDay
             /\ stored' = dmSubs']_vars

\* a subscription paused and resumed a whole day later, once
C1_Witness ==
  \E i \in DOMAIN dmSubs :
    /\ dmSubs[i].isActive
    /\ resumes = 1
    /\ dmSubs[i].pausedAt # Undefined
    /\ dmSubs[i].updatedAt - dmSubs[i].pausedAt >= TicksPerDay
    /\ dmSubs[i].nextPaymentDate = DateTick(2024, 0, 15) + TicksPerDay

\* C6: pausing an active subscription sets isActive false and pausedAt to
\* the current time and changes nothing else but updatedAt; pausing a
\* paused one returns null and changes nothing.
C6_PauseFrame ==
  [][\A id \in DmIds :
       pauseSubscription(id)
       => LET i == findIndex(dmSubs, id) IN
          /\ (i # 0 /\ dmSubs[i].isActive)
             => /\ ret' = "value"
                /\ dmSubs'[i] = [dmSubs[i] EXCEPT !.isActive = FALSE,
                                                  !.pausedAt = now,
                                                  !.updatedAt = now]
                /\ OthersSame(dmSubs, dmSubs', i)
                /\ stored' = dmSubs'
          /\ (i # 0 /\ ~dmSubs[i].isActive)
             => /\ ret' = "null"
                /\ dmSubs' = dmSubs
                /\ stored' = stored]_vars

\* a paused subscription on which a later pause returned null
C6_Witness ==
  \E i \in DOMAIN dmSubs :
    /\ ~dmSubs[i].isActive
    /\ dmSubs[i].pausedAt # Undefined
    /\ dmSubs[i].pausedAt < now
    /\ dmSubs[i].updatedAt = dmSubs[i].pausedAt
    /\ ret = "null"

\* the length of a billing cycle in calendar months
CycleMonths(billingCycle) ==
  CASE billingCycle = "quarterly" -> 3
    [] billingCycle = "yearly"    -> 12
    [] OTHER                      -> 1

\* the same day-of-month k calendar months later, or the last day of that
\* month when it is shorter
AddMonthsClamped(t, k) ==
  LET m  == getMonth(t) + k
      yy == getFullYear(t) + (m \div 12)
      mm == m % 12
      d  == IF getDate(t) > DaysInMonth(yy, mm) THEN DaysInMonth(yy, mm)
            ELSE getDate(t)
  IN MakeDay(yy, mm, d) * TicksPerDay + TimeOfDay(t)

\* C5: skipNextPayment on an active subscription with a nextPaymentDate moves
\* the date forward by exactly one billing cycle, adds 1 to skippedPayments
\* and changes nothing else but updatedAt; on a paused subscription or one
\* without a date it returns null and changes nothing.
C5_SkipAdvancesOneCycle ==
  [][\A id \in DmIds :
       skipNextPayment(id)
       => LET i == findIndex(dmSubs, id) IN
          /\ (i # 0 /\ dmSubs[i].isActive
                    /\ dmSubs[i].nextPaymentDate # Undefined)
             => /\ ret' = "value"
                /\ dmSubs'[i] =
                     [dmSubs[i] EXCEPT
                        !.nextPaymentDate =
                           AddMonthsClamped(@, CycleMonths(dmSubs[i].billingCycle)),
                        !.skippedPayments = OrZero(@) + 1,
                        !.updatedAt = now]
                /\ OthersSame(dmSubs, dmSubs', i)
          /\ (i # 0 /\ ~(dmSubs[i].isActive
                         /\ dmSubs[i].nextPaymentDate # Undefined))
             => /\ ret' = "null"
                /\ dmSubs' = dmSubs
                /\ stored' = stored]_vars

\* C3: when background handlers interleave at their storage get and set,
\* no completed add, update, delete or deactivation is lost: what a handler
\* writes is its own mutation applied to the list as persisted at that
\* moment, so the list afterwards reflects every completed mutation.
C3_NoLostUpdate ==
  [][\A slot \in Slots :
       Finish(slot)
       => LET h == Handle(bg[slot], stored, now, idCounter + 1)
          IN stored' = IF h.write THEN h.subs ELSE stored]_vars

\* C4: update, delete, pause, resume, skipNextPayment and reactivate, given
\* a (well-formed) id that is absent from the store, signal a not-found
\* error to the caller and leave the store unchanged; none of them reports
\* success or returns a silent no-change result.
C4_UnknownIdSignalsNotFound ==
  [][/\ \A id \in DmIds \ {0} :
          (/\ ~Has(dmSubs, id)
           /\ \/ updateSubscription(id, [name |-> ""])
              \/ deleteSubscription(id)
              \/ pauseSubscription(id)
              \/ resumeSubscription(id)
              \/ skipNextPayment(id))
          => /\ ret' = "NotFound"
             /\ dmSubs' = dmSubs
             /\ stored' = stored
     /\ \A slot \in Slots :
          (/\ Finish(slot)
           /\ bg[slot].op \in {"update", "delete"}
           /\ bg[slot].id # 0
           /\ ~Has(bg[slot].snap, bg[slot].id))
          => /\ ret' = "NotFound"
             /\ stored' = stored
     /\ (reactivateFallbackSet /\ pop.id # 0 /\ ~Has(winSubs, pop.id))
          => /\ ret' = "NotFound"
             /\ stored' = stored]_vars

\* C7: reactivating an existing subscription, active or not, writes it back
\* with isActive true and a new updatedAt and with nextPaymentDate,
\* pausedAt, skippedPayments, price, category and every other field as the
\* operation read them; it succeeds, so on an already-active subscription
\* nothing but updatedAt changes; the other subscriptions are written back
\* as read.
C7_ReactivateFrame ==
  [][/\ \A slot \in ReviveSlots :
          (Finish(slot) /\ bg[slot].reply)
          => LET subs == bg[slot].snap
                 i == findIndex(subs, bg[slot].id)
             IN i # 0
                => /\ ret' = "success"
                   /\ pop' = IdlePop
                   /\ stored'[i] = [subs[i] EXCEPT !.isActive = TRUE,
                                                  !.updatedAt = now]
                   /\ OthersSame(subs, stored', i)
     /\ reactivateFallbackSet
          => LET i == findIndex(winSubs, pop.id)
             IN i # 0
                => /\ ret' = "success"
                   /\ stored'[i] = [winSubs[i] EXCEPT !.isActive = TRUE,
                                                     !.updatedAt = now]
                   /\ OthersSame(winSubs, stored', i)]_vars

\* a subscription the expiry check had deactivated (as the check still in
\* flight read it) is active again after a reactivation that succeeded
C7_Witness ==
  \E slot \in ReviveSlots, i \in DOMAIN stored :
    /\ bg[slot].op = "sweep"
    /\ i \in DOMAIN bg[slot].snap
    /\ bg[slot].snap[i].id = stored[i].id
    /\ ~bg[slot].snap[i].isActive
    /\ stored[i].isActive
    /\ stored[i].nextPaymentDate = bg[slot].snap[i].nextPaymentDate
    /\ stored[i].nextPaymentDate < now
    /\ stored[i].updatedAt = now
    /\ ret = "success"
    /\ pop = IdlePop

\* the key of the calendar month before the month of t
PrevMonthKey(t) ==
  IF getMonth(t) = 0 THEN (getFullYear(t) - 1) * 100 + 12
  ELSE getFullYear(t) * 100 + getMonth(t)

\* C2: with rollover enabled, whatever the expiry setting, a second
\* processMonthlyRollover in the same calendar month as the one before it
\* leaves rolloverData with the entry for the month just completed and
\* changes nothing in rolloverData.
C2_RolloverIdempotent ==
  [][(/\ processMonthlyRollover
      /\ rolloverSettings.enabled
      /\ lastRun = MonthKey(now))
     => /\ PrevMonthKey(now) \in DOMAIN rolloverData'
        /\ rolloverData' = rolloverData]_vars

\* C8: removing a category c (DataManager.removeCategory, the popup's
\* removeCustomCategory) leaves no stored subscription with category c:
\* those that had it have "other", every other subscription is as it was;
\* and the DataManager's category list is never empty.
C8_RemovedCategoryReassigned ==
  [][/\ \A c \in CategoryNames :
          (/\ removeCategory(c)
           /\ c \in Range(dmCategories)
           /\ Len(dmCategories) > 1)
          => /\ Len(dmSubs') = Len(dmSubs)
             /\ \A i \in DOMAIN dmSubs :
                  /\ dmSubs'[i].category # c
                  /\ dmSubs'[i] = IF dmSubs[i].category = c
                                  THEN [dmSubs[i] EXCEPT !.category = "other"]
                                  ELSE dmSubs[i]
             /\ stored' = dmSubs'
     /\ removeCustomCategorySubs
          => /\ Len(stored') = Len(stored)
             /\ \A i \in DOMAIN stored :
                  /\ stored'[i].category # pop.arg
                  /\ stored'[i] = IF stored[i].category = pop.arg
                                  THEN [stored[i] EXCEPT !.category = "other"]
                                  ELSE stored[i]
     /\ dmCategories' # <<>>]_vars

\* C9: in every ledger entry processMonthlyRollover writes, each category
\* recorded has unusedAmount = max(0, budgetAmount - spentAmount) and
\* rolloverAmount by the mode (full: unusedAmount; percentage: unusedAmount *
\* percentage / 100; fixed: min(unusedAmount, maxAmount)), so that
\* 0 <= rolloverAmount <= unusedAmount <= budgetAmount, and totalAmount is
\* the sum of the rolloverAmount of its categories.
C9_RolloverAmounts ==
  [][processMonthlyRollover
     => \A month \in DOMAIN rolloverData' \ DOMAIN rolloverData :
          LET entry == rolloverData'[month] IN
          /\ \A category \in DOMAIN entry.categories :
               LET r == entry.categories[category] IN
               /\ r.unusedAmount = Max(0, r.budgetAmount - r.spentAmount)
               /\ rolloverSettings.mode = "full"
                    => r.rolloverAmount = r.unusedAmount
               /\ rolloverSettings.mode = "percentage"
                    => r.rolloverAmount * 100
                         = r.unusedAmount * rolloverSettings.percentage
               /\ rolloverSettings.mode = "fixed"
                    => r.rolloverAmount
                         = Min(r.unusedAmount, rolloverSettings.maxAmount)
               /\ 0 <= r.rolloverAmount
               /\ r.rolloverAmount <= r.unusedAmount
               /\ r.unusedAmount <= r.budgetAmount
          /\ entry.totalAmount
               = TotalAmount(entry.categories, DOMAIN entry.categories)]_vars

\* C10: after every processMonthlyRollover with rollover enabled and expiry
\* k months, rolloverData has no entry for a month k or more calendar
\* months before the current one; with expiry "never" no entry is removed.
C10_ExpiredEntriesPurged ==
  [][(processMonthlyRollover /\ rolloverSettings.enabled)
     => IF rolloverSettings.expiry = "never"
        THEN DOMAIN rolloverData \subseteq DOMAIN rolloverData'
        ELSE \A month \in DOMAIN rolloverData' :
               (getFullYear(now) * 12 + getMonth(now))
                 - ((month \div 100) * 12 + (month % 100) - 1)
               < parseInt(rolloverSettings.expiry)]_vars

\* the sum of totalAmount over the ledger entries not yet expired at t
NonExpiredTotal(data, settings, t) ==
  ExistingRolloverTotal(data,
    {month \in DOMAIN data :
       \/ settings.expiry = "never"
       \/ (getFullYear(t) * 12 + getMonth(t))
            - ((month \div 100) * 12 + (month % 100) - 1)
          < parseInt(settings.expiry)})

\* C11 (as amended): with categoryBudgets empty, this month's part of the
\* available rollover is 0, so updateRolloverStatus shows the sum of
\* totalAmount over the non-expired ledger entries (0 when there is none),
\* and an entry processMonthlyRollover writes has no categories and
\* totalAmount 0, whatever the subscriptions; neither operation fails.
C11_EmptyBudgetsRollover ==
  [][/\ (/\ updateRolloverStatus
         /\ rolloverSettings.enabled
         /\ categoryBudgets = EmptyMap)
        => rolloverStatus'
             = NonExpiredTotal(rolloverData, rolloverSettings, now)
     /\ (processMonthlyRollover /\ categoryBudgets = EmptyMap)
        => \A month \in DOMAIN rolloverData' \ DOMAIN rolloverData :
             /\ rolloverData'[month].categories = EmptyMap
             /\ rolloverData'[month].totalAmount = 0]_vars

\* budgets emptied after a month was closed with rollover 100: the status
\* still shows the 100 of the ledger
C11_Witness ==
  /\ categoryBudgets = EmptyMap
  /\ rolloverSettings.enabled
  /\ rolloverStatus = 100
  /\ \E month \in DOMAIN rolloverData : rolloverData[month].totalAmount = 100
  /\ \E month \in DOMAIN rolloverData :
       /\ rolloverData[month].totalAmount = 0
       /\ rolloverData[month].categories = EmptyMap

\* C11 (as stated): with categoryBudgets empty, updateRolloverStatus shows
\* 0 whatever the ledger holds.
C11_EmptyBudgetsShowZero ==
  [][(/\ updateRolloverStatus
      /\ rolloverSettings.enabled
      /\ categoryBudgets = EmptyMap)
     => rolloverStatus' = 0]_vars

\* C12: a processMonthlyRollover run that overlaps a removeCustomCategory
\* computes its ledger entry from stored data showing either none of the
\* removal's writes (the budgets as the removal read them) or all of them
\* (the subscriptions rewritten as well), never from a part of them.
C12_CloseoutReadsWholeMutation ==
  [][(/\ processMonthlyRollover
      /\ pop.op = "removeCategory"
      /\ pop.pc = "subs")
     => \A month \in DOMAIN rolloverData' \ DOMAIN rolloverData :
          \/ rolloverData'[month]
               = MonthlyRollover(rolloverSettings, pop.snap[2], stored, now)
          \/ rolloverData'[month]
               = MonthlyRollover(rolloverSettings, categoryBudgets,
                                 MoveToOther(winSubs, pop.arg), now)]_vars

\* C13: with browser notifications enabled and a frequency of immediate,
\* daily or weekly, a subscription that has a payment date, was created more
\* than 7 days before it and has not been changed since has been shown a
\* reminder by the hourly runs before the clock reaches the payment date
Untouched(sub) == sub.updatedAt = sub.createdAt

DueForReminder(sub) ==
  /\ sub.nextPaymentDate # Undefined
  /\ Untouched(sub)
  /\ (sub.createdAt + 1) * HoursPerTick + 7 * 24 <= PaymentInstant(sub)
  /\ Instant(now) >= PaymentInstant(sub)

C13_ReminderBeforePayment ==
  (/\ notificationSettings.browserNotifications
   /\ notificationSettings.notificationFrequency \in Frequencies)
  => \A i \in DOMAIN stored :
       DueForReminder(stored[i]) => stored[i].id \in reminded

C13_Witness ==
  /\ notificationSettings.browserNotifications
  /\ notificationSettings.notificationFrequency = "weekly"
  /\ \E i \in DOMAIN stored :
       DueForReminder(stored[i]) /\ stored[i].id \in reminded

\* C14: a run of checkExpiringSubscriptions that gets to its selection
\* selects exactly the subscriptions it read that are active and have a
\* nextPaymentDate from now to now + 7 days, both ends included; a paused or
\* dateless subscription is never selected
InWindow(sub, h) ==
  /\ sub.isActive
  /\ sub.nextPaymentDate # Undefined
  /\ h <= PaymentInstant(sub)
  /\ PaymentInstant(sub) <= h + 7 * 24

C14_ExpiringSoonSelection ==
  [][\A slot \in Slots :
       (/\ bg[slot].op = "sweep"
        /\ bg[slot].arg.browserNotifications
        /\ Finish(slot))
       => LET subs == bg[slot].snap
              h == Instant(now)
          IN /\ {expiringSoon'[i] : i \in DOMAIN expiringSoon'}
                  = {subs[i] : i \in {k \in DOMAIN subs : InWindow(subs[k], h)}}
             /\ \A i \in DOMAIN expiringSoon' :
                  /\ expiringSoon'[i].isActive
                  /\ expiringSoon'[i].nextPaymentDate # Undefined]_vars

C14_Witness ==
  /\ expiringSoon # <<>>
  /\ \E i \in DOMAIN stored : ~stored[i].isActive

\* C15: the current-month total of getMonthlySpending is the sum, over the
\* active subscriptions, of price (monthly, custom), price / 3 (quarterly)
\* or price / 12 (yearly); a pause lowers it by the paused subscription's
\* monthly equivalent and a resume raises it by the same amount
MonthlyEquivalent(sub) ==
  IF sub.billingCycle \in {"monthly", "custom"} THEN 12 * sub.price
  ELSE IF sub.billingCycle = "quarterly" THEN 4 * sub.price
  ELSE sub.price

RECURSIVE EquivalentSum(_, _)
EquivalentSum(subs, indices) ==
  IF indices = {} THEN 0
  ELSE LET i == CHOOSE k \in indices : TRUE
       IN MonthlyEquivalent(subs[i]) + EquivalentSum(subs, indices \ {i})

ActiveSpend(subs) == EquivalentSum(subs, {i \in DOMAIN subs : subs[i].isActive})

CurrentTotal == MonthlyTotal(getMonthlySpending(dmSubs, now))

C15_MonthlySpendingOfActive ==
  /\ [](CurrentTotal = ActiveSpend(dmSubs))
  /\ [][\A id \in 1..MaxSpendSubs :
          LET index == findIndex(dmSubs, id) IN
          /\ (pauseSubscription(id) /\ index # 0 /\ dmSubs[index].isActive)
               => CurrentTotal' = CurrentTotal - MonthlyEquivalent(dmSubs[index])
          /\ (resumeSubscription(id) /\ index # 0 /\ ~dmSubs[index].isActive)
               => CurrentTotal' = CurrentTotal + MonthlyEquivalent(dmSubs[index])]_vars

C15_Witness ==
  /\ CurrentTotal = 11 * 12
  /\ Len(dmSubs) = 2
  /\ \E i \in DOMAIN dmSubs : dmSubs[i].billingCycle = "yearly"
  /\ resumes > 0

\* C16: getCategoryBreakdown has one entry for each category with an active
\* subscription, its amount the category's sum of monthly equivalents and
\* its percentage 100 * amount / total rounded to the nearest integer, or 0
\* when the total is 0; without subscriptions it is the empty list
ActiveCategories(subs) ==
  {subs[i].category : i \in {k \in DOMAIN subs : subs[k].isActive}}

CategorySpend(subs, category) ==
  EquivalentSum(subs, {i \in DOMAIN subs :
                         subs[i].isActive /\ subs[i].category = category})

Nearest(percentage, amount, total) ==
  /\ 2 * (100 * amount - percentage * total) <= total
  /\ 2 * (percentage * total - 100 * amount) <= total

C16_CategoryBreakdown ==
  LET breakdown == getCategoryBreakdown(dmSubs)
      total == ActiveSpend(dmSubs)
  IN /\ {breakdown[i].category : i \in DOMAIN breakdown} = ActiveCategories(dmSubs)
     /\ Len(breakdown) = Cardinality(ActiveCategories(dmSubs))
     /\ \A i \in DOMAIN breakdown :
          /\ breakdown[i].amount = CategorySpend(dmSubs, breakdown[i].category)
          /\ IF total = 0 THEN breakdown[i].percentage = 0
             ELSE Nearest(breakdown[i].percentage, breakdown[i].amount, total)
     /\ dmSubs = <<>> => breakdown = <<>>

C16_Witness ==
  LET breakdown == getCategoryBreakdown(dmSubs)
  IN /\ Len(breakdown) = 2
     /\ breakdown[1].percentage \notin {0, 50, 100}
     /\ breakdown[1].amount > breakdown[2].amount
     /\ resumes > 0

\* C17: the spending trend compares the two most recent month buckets of
\* the spend history: {stable, 0} with fewer than two buckets, {up, 100}
\* when the previous bucket is 0, and otherwise the sign of current -
\* previous with |round(100 * (current - previous) / previous)|
SpendBuckets == Put(spendHistory, MonthKey(now), CurrentTotal)

TrendOfBuckets(buckets) ==
  IF Cardinality(DOMAIN buckets) < 2
  THEN [trend |-> "stable", percentage |-> 0]
  ELSE LET last == LastKey(DOMAIN buckets)
           current == buckets[last]
           previous == buckets[LastKey(DOMAIN buckets \ {last})]
       IN IF previous = 0
          THEN [trend |-> "up", percentage |-> 100]
          ELSE [trend |-> IF current > previous THEN "up"
                          ELSE IF current < previous THEN "down"
                          ELSE "stable",
                percentage |->
                  Abs((200 * (current - previous) + previous) \div (2 * previous))]

C17_TrendOfLastTwoBuckets ==
  getSpendingTrends(dmSubs, now) = TrendOfBuckets(SpendBuckets)

\* C18: the date skipNextPayment computes is the old date moved forward by
\* 1 (monthly, custom), 3 (quarterly) or 12 (yearly) calendar months with the
\* same day-of-month, or the last day of the target month when that month
\* is shorter; it never lies in the month after the target month
C18_NextPaymentClamped ==
  [][\A id \in DmIds :
       LET i == findIndex(dmSubs, id)
           months == CycleMonths(dmSubs[i].billingCycle)
           before == dmSubs[i].nextPaymentDate
           after == dmSubs'[i].nextPaymentDate
       IN (skipNextPayment(id) /\ ret' = "value")
          => /\ after = AddMonthsClamped(before, months)
             /\ getMonth(after) = (getMonth(before) + months) % 12
             /\ getDate(after) <= getDate(before)]_vars

\* C19: twelve successive skipNextPayment calls on a monthly subscription
\* leave nextPaymentDate at the original date's month and day one year
\* later, whatever the original day-of-month
OriginalDate(sub) ==
  (CHOOSE data \in CycleInputs : data.name = sub.name).nextPaymentDate

C19_TwelveSkipsOneYear ==
  \A i \in DOMAIN dmSubs :
    (dmSubs[i].billingCycle = "monthly" /\ dmSubs[i].skippedPayments = 12)
    => /\ dmSubs[i].nextPaymentDate = AddMonthsClamped(OriginalDate(dmSubs[i]), 12)
       /\ getFullYear(dmSubs[i].nextPaymentDate)
            = getFullYear(OriginalDate(dmSubs[i])) + 1
       /\ getMonth(dmSubs[i].nextPaymentDate) = getMonth(OriginalDate(dmSubs[i]))
       /\ getDate(dmSubs[i].nextPaymentDate) = getDate(OriginalDate(dmSubs[i]))

\* C20: whenever no store operation is in progress, the list the
\* DataManager holds in memory is the persisted subscriptions value: after
\* its own mutations, after a mutation whose save failed, and after the
\* worker or the popup has written subscriptions
NoOperationInProgress ==
  /\ \A slot \in Slots : bg[slot].op = "idle"
  /\ pop = IdlePop

C20_MemoryEqualsPersisted == NoOperationInProgress => dmSubs = stored

\* C21: a write given a missing or empty name, a non-numeric or negative
\* price, or an id that is not a string reports an error and leaves the list
\* unchanged, so every stored subscription has a non-empty name and a price
\* that is a number >= 0
WellFormed(sub) == sub.name # "" /\ sub.price >= 0

C21_StoredSubscriptionsWellFormed ==
  /\ \A i \in DOMAIN stored : WellFormed(stored[i])
  /\ \A i \in DOMAIN dmSubs : WellFormed(dmSubs[i])

\* C22: no two stored subscriptions share an id, and no updateSubscription
\* call, whatever its updates, changes the id of a stored subscription
UniqueIds(subs) ==
  \A i, j \in DOMAIN subs : subs[i].id = subs[j].id => i = j

C22_IdsUniqueAndImmutable ==
  /\ [](UniqueIds(dmSubs) /\ UniqueIds(stored))
  /\ [][\A id \in AnyId, u \in ImportUpdates :
          (updateSubscription(id, u) /\ ret' = "value")
          => dmSubs'[findIndex(dmSubs, id)].id = id]_vars

\* C23: an operation that changes a field of a stored subscription sets its
\* updatedAt to the time of the change, so updatedAt never decreases and is
\* never before createdAt
C23_ChangesStampUpdatedAt ==
  [][\A i \in DOMAIN stored \cap DOMAIN stored' :
       (stored'[i].id = stored[i].id /\ stored'[i] # stored[i])
       => /\ stored'[i].updatedAt = now
          /\ stored'[i].updatedAt >= stored[i].updatedAt
          /\ stored'[i].updatedAt >= stored'[i].createdAt]_vars

\* the budget status the specification gives: over when spend / limit * 100
\* is above 100, near when it is above the threshold (80 when unset)
StatedVerdict(subs, settings) ==
  Verdict(totalSpent(subs) * 100 > 100 * settings.limit,
          totalSpent(subs) * 100
            > ThresholdOrDefault(settings.threshold) * settings.limit)

\* C24: with a budget limit above 0 in the stored settings, each of the three
\* budget checks (DataManager.checkBudget on freshly loaded data, the popup's
\* updateBudgetStatus, the worker's checkBudgetAlerts with notifications on)
\* gives the status over / near / within that spend / limit * 100 gives
\* against 100 and the threshold, so the three agree
C24_BudgetChecksAgree ==
  [][(/\ budgetSettings.limit > 0
      /\ notificationSettings.browserNotifications
      /\ dmSubs = stored
      /\ dmBudgetSettings = budgetSettings
      /\ updateBudgetStatus \/ checkBudgetAlerts \/ callCheckBudget)
     => \A check \in Checks :
          budgetVerdict'[check] # budgetVerdict[check]
          => budgetVerdict'[check] = StatedVerdict(stored, budgetSettings)]_vars

\* C25: a call of isFeatureAvailable for a premium feature returns true when
\* it is made less than 14 days after the trial started, and false from 14
\* days after the start on, when the status is no longer "trial"
C25_TrialLastsFourteenDays ==
  /\ [](trialStartTime # Undefined /\ now >= trialStartTime + trialDurationFourteen
        => premiumStatus = "free")
  /\ [][\A featureName \in PremiumFeatures :
          (isFeatureAvailable(featureName) /\ trialStartTime # Undefined)
          => (lastAnswer'.available
                <=> now < trialStartTime + trialDurationFourteen)]_vars

\* C26: a stored subscription that goes from active to inactive gets
\* pausedAt set to that instant, and pausedAt stays as it is while the
\* subscription is inactive, so that resumeSubscription shifts
\* nextPaymentDate by the inactive period being ended and by nothing else
C26_PausedAtStartsInactivePeriod ==
  [][\A i \in DOMAIN stored \cap DOMAIN stored' :
       (stored'[i].id = stored[i].id /\ ~stored'[i].isActive)
       => stored'[i].pausedAt =
            IF stored[i].isActive THEN now ELSE stored[i].pausedAt]_vars

\* the free plan: premiumStatus free, or a trial whose end date has passed
FreePlan ==
  \/ premiumStatus = "free"
  \/ premiumStatus = "trial" /\ trialEndDate # Undefined /\ now >= trialEndDate

C28_CategoriesExist ==
  \A i \in DOMAIN dmSubs : dmSubs[i].category \in Range(dmCategories)

\* active with a nextPaymentDate before the instant t
Overdue(sub, t) ==
  /\ sub.isActive
  /\ sub.nextPaymentDate # Undefined
  /\ PaymentInstant(sub) < Instant(t)

\* C29: when a checkExpiringSubscriptions run completes, no persisted
\* subscription is active with a nextPaymentDate before the run's now,
\* whatever the notification settings
C29_SweepLeavesNoneOverdue ==
  [][\A slot \in Slots :
       (bg[slot].op = "sweep" /\ bg'[slot].op = "idle")
       => \A i \in DOMAIN stored' : ~Overdue(stored'[i], now)]_vars

\* C30: for every category with a budget, the spentAmount that
\* processMonthlyRollover and updateRolloverStatus take from the stored list
\* is getSpendingByCategory's amount for it: the sum of the monthly rates of
\* the active subscriptions, whatever their billing cycle
C30_SpentAmountIsMonthlyRate ==
  [][(processMonthlyRollover \/ updateRolloverStatus)
     => \A category \in DOMAIN categoryBudgets :
          CategorySpending(stored, category) * Twelfths
            = OrZeroAt(getSpendingByCategory(stored), category)]_vars

====
